---- MODULE Spec2Model ----
(***************************************************************************)
(* A model of the logius-chat RAG backend: the Redis-backed conversation   *)
(* history store (context_layer/redis_service.py), the similarity search   *)
(* and fragment resolution adapters (context_layer/pinecone_service.py),   *)
(* the query pipeline (context_layer/rag_service.py) and its HTTP boundary *)
(* (api/views.py).                                                         *)
(*                                                                         *)
(* Python text is modelled as a sequence of atoms.  An atom is either one   *)
(* character ("a", " ", the double quote, the backslash) or one literal    *)
(* piece of a template or format string, kept whole.  String concatenation *)
(* is sequence concatenation.                                              *)
(***************************************************************************)
EXTENDS Integers, Sequences, FiniteSets, TLC

VARIABLES
    redis,      \* the Redis keyspace: data (key -> value) and expire_at (key -> time)
    now,        \* the wall clock, in seconds
    created,    \* history variable: id -> time create_chat_session returned it, or -1
    appended,   \* history variable: id -> the (role, content) pairs log_message stored
    ret,        \* the last call made on the session store and what it returned
    cfg,        \* import-time flags: PINECONE_AVAILABLE, PINECONE_NEW_API, DATABASE_AVAILABLE
    db,         \* the Chunk table of the relational store: a set of rows
    fs,         \* the filesystem: path -> file
    documents,  \* the Document table of the relational store: a set of rows
    probe,      \* the last direct call of an adapter function: its arguments and result
    req,        \* per HTTP request slot: where ChatView.post / process_query stands
    served      \* how many requests ChatView.post has taken so far

storeVars == <<redis, now, created, appended, ret>>
envVars == <<cfg, db, fs, documents>>
reqVars == <<req, served>>
vars == <<redis, now, created, appended, ret, cfg, db, fs, documents, probe, req, served>>

----------------------------------------------------------------------------
(* Bounds *)

MaxMsgs == 2        \* messages stored over all sessions (direct store calls)
TickSeconds == 900  \* seconds per clock step
MaxRefs == 2        \* length of a list of fragment references
MaxFiles == 2       \* files present in the filesystem
MaxMatches == 2     \* matches in a vector index answer
MaxRequests == 1    \* requests the chat endpoint takes in one run
NumReqs == 2        \* HTTP request slots
MaxContentLen == 3  \* characters of a document's content
MaxChunkSize == 2   \* the largest chunk_size of a chunking call
MaxDisplay == 2     \* the largest max_chunks of a display call

----------------------------------------------------------------------------
(* Python values *)

\* Python's None, kept apart from every text (no text holds this atom).
None == <<"NoneType">>

QUOTE == "\""
BACKSLASH == "\\"

\* bool(x) of a value that is None or a str
Truthy(x) == x # None /\ x # <<>>

\* str(x) as an f-string renders it
Str(x) == IF x = None THEN <<"None">> ELSE x

----------------------------------------------------------------------------
(* json.dumps / json.loads of a message dict *)

RECURSIVE JsonEscape(_)
JsonEscape(t) ==
    IF t = <<>> THEN <<>>
    ELSE LET c == Head(t) IN
         (IF c = QUOTE \/ c = BACKSLASH THEN <<BACKSLASH, c>>
          ELSE IF c = "\t" THEN <<BACKSLASH, "t">>
          ELSE IF c = "\n" THEN <<BACKSLASH, "n">>
          ELSE <<c>>)
            \o JsonEscape(Tail(t))

JsonString(t) == <<QUOTE>> \o JsonEscape(t) \o <<QUOTE>>

JsonValue(v) == IF v = None THEN <<"null">> ELSE JsonString(v)

\* json.dumps({"role": .., "content": .., "timestamp": ..})
JsonDumps(message) ==
    <<"{">> \o JsonString(<<"role">>) \o <<": ">> \o JsonValue(message.role)
      \o <<", ">> \o JsonString(<<"content">>) \o <<": ">> \o JsonValue(message.content)
      \o <<", ">> \o JsonString(<<"timestamp">>) \o <<": ">> \o JsonValue(message.timestamp)
      \o <<"}">>

\* the characters of a JSON string from position i (just after the opening
\* quote) up to the closing quote; next is the position after that quote
RECURSIVE JsonReadChars(_, _, _)
JsonReadChars(s, i, acc) ==
    IF s[i] = QUOTE THEN [val |-> acc, next |-> i + 1]
    ELSE IF s[i] = BACKSLASH
         THEN JsonReadChars(s, i + 2,
                  Append(acc, IF s[i + 1] = "t" THEN "\t"
                              ELSE IF s[i + 1] = "n" THEN "\n" ELSE s[i + 1]))
    ELSE JsonReadChars(s, i + 1, Append(acc, s[i]))

JsonReadValue(s, i) ==
    IF s[i] = "null" THEN [val |-> None, next |-> i + 1]
    ELSE JsonReadChars(s, i + 1, <<>>)

\* the members of a JSON object from position i, as a set of <<key, value>>
RECURSIVE JsonReadMembers(_, _, _)
JsonReadMembers(s, i, acc) ==
    LET k == JsonReadChars(s, i + 1, <<>>)
        v == JsonReadValue(s, k.next + 1)
        got == acc \cup {<<k.val, v.val>>}
    IN IF s[v.next] = ", " THEN JsonReadMembers(s, v.next + 1, got) ELSE got

JsonGet(members, key) == (CHOOSE m \in members : m[1] = key)[2]

\* json.loads(msg), read back as the message dict
JsonLoads(s) ==
    LET members == JsonReadMembers(s, 2, {}) IN
    [role |-> JsonGet(members, <<"role">>),
     content |-> JsonGet(members, <<"content">>),
     timestamp |-> JsonGet(members, <<"timestamp">>)]

\* datetime.now().isoformat()
IsoFormat(t) == <<ToString(t)>>

----------------------------------------------------------------------------
(* The Redis server, as the commands the service uses see it *)

ChatIds == {"s1", "s2"}

\* a request without a chat id (request.data.get('chat_id') is None)
NoChatId == ""
Roles == {<<"user">>, <<"assistant">>}
Contents == {<<"a", QUOTE, BACKSLASH>>, None}

SESSION_TTL == 1800

\* a key's value: no value, a hash (field -> value pairs) or a list
Absent == [type |-> "none", hash |-> {}, list |-> <<>>]
HashValue(h) == [type |-> "hash", hash |-> h, list |-> <<>>]
ListValue(l) == [type |-> "list", hash |-> {}, list |-> l]
NoExpiry == -1

\* f"chat:{chat_id}" and f"chat:{chat_id}:messages"
MetaKey(chat_id) == <<"chat", chat_id>>
MessagesKey(chat_id) == <<"chat", chat_id, "messages">>
Keys == {MetaKey(id) : id \in ChatIds \cup {NoChatId}}
            \cup {MessagesKey(id) : id \in ChatIds \cup {NoChatId}}

Exists(kv, key) == kv.data[key].type # "none"

\* HSET key field value: creates the hash when the key is absent
HSet(kv, key, field, value) ==
    [kv EXCEPT !.data[key] =
        HashValue({m \in @.hash : m[1] # field} \cup {<<field, value>>})]

\* EXPIRE key seconds: sets a timeout on an existing key, does nothing (and
\* answers 0) when the key does not exist
Expire(kv, key, seconds, t) ==
    IF Exists(kv, key) THEN [kv EXCEPT !.expire_at[key] = t + seconds] ELSE kv

\* LPUSH in place of RPUSH: the value goes to the head of the list
LPush(kv, key, value) ==
    [kv EXCEPT !.data[key] = ListValue(<<value>> \o @.list)]

\* SET in place of RPUSH: the key holds the last value only
RPushReplacing(kv, key, value) ==
    [kv EXCEPT !.data[key] = ListValue(<<value>>)]

\* RPUSH key value: creates the list when the key is absent; an existing
\* timeout is kept, a new key has none
RPush(kv, key, value) ==
    [kv EXCEPT !.data[key] = ListValue(Append(@.list, value))]

\* LRANGE key 0 -1: the whole list, empty when the key is absent
LRange(kv, key) == kv.data[key].list

\* the keyspace at time t: keys whose timeout has passed are gone
Expired(kv, t) ==
    [data |-> [k \in Keys |->
                 IF kv.expire_at[k] # NoExpiry /\ kv.expire_at[k] <= t
                 THEN Absent ELSE kv.data[k]],
     expire_at |-> [k \in Keys |->
                 IF kv.expire_at[k] # NoExpiry /\ kv.expire_at[k] <= t
                 THEN NoExpiry ELSE kv.expire_at[k]]]

EmptyRedis == [data |-> [k \in Keys |-> Absent], expire_at |-> [k \in Keys |-> NoExpiry]]

StoredCount ==
    LET RECURSIVE Sum(_)
        Sum(S) == IF S = {} THEN 0
                  ELSE LET id == CHOOSE x \in S : TRUE
                       IN Len(LRange(redis, MessagesKey(id))) + Sum(S \ {id})
    IN Sum(ChatIds)

----------------------------------------------------------------------------
(* context_layer/redis_service.py *)

NoRet == [op |-> "none", chat_id |-> "", raised |-> FALSE, ok |-> FALSE, messages |-> <<>>]

\* uuid.uuid4(): an id that no earlier call issued and no key of the store holds
Uuid4Ids(kv) ==
    {id \in ChatIds : ~Exists(kv, MetaKey(id)) /\ ~Exists(kv, MessagesKey(id))
                        /\ created[id] = -1 /\ appended[id] = <<>>}

\* create_chat_session seeding the message list with a marker entry so that
\* the list exists when its timeout is set
CreateSessionSeeded(kv, chat_id, t, n) ==
    LET marker == JsonDumps([role |-> <<"system">>, content |-> <<"created">>,
                             timestamp |-> IsoFormat(t)])
        d1 == IF n >= 1 THEN HSet(kv, MetaKey(chat_id), "created_at", IsoFormat(t)) ELSE kv
        d2 == IF n >= 2 THEN Expire(d1, MetaKey(chat_id), SESSION_TTL, t) ELSE d1
        d3 == IF n >= 3
              THEN Expire(RPush(d2, MessagesKey(chat_id), marker), MessagesKey(chat_id),
                          SESSION_TTL, t)
              ELSE d2
    IN d3

\* the keyspace after the first n of create_chat_session's three commands
CreateSessionCommands(kv, chat_id, t, n) ==
    LET d1 == IF n >= 1 THEN HSet(kv, MetaKey(chat_id), "created_at", IsoFormat(t)) ELSE kv
        d2 == IF n >= 2 THEN Expire(d1, MetaKey(chat_id), SESSION_TTL, t) ELSE d1
        d3 == IF n >= 3 THEN Expire(d2, MessagesKey(chat_id), SESSION_TTL, t) ELSE d2
    IN d3

\* create_chat_session(); fail_at = k > 0: the k-th Redis command raises
\* (nothing catches it), fail_at = 0: none does and the id is returned
create_chat_session(fail_at) ==
    /\ \E chat_id \in Uuid4Ids(redis) :
        /\ redis' = CreateSessionCommands(redis, chat_id, now,
                                          IF fail_at = 0 THEN 3 ELSE fail_at - 1)
        /\ created' = IF fail_at = 0 THEN [created EXCEPT ![chat_id] = now] ELSE created
        /\ ret' = [NoRet EXCEPT !.op = "create_chat_session",
                                !.chat_id = IF fail_at = 0 THEN chat_id ELSE "",
                                !.raised = (fail_at # 0), !.ok = (fail_at = 0)]
    /\ UNCHANGED <<now, appended>>

\* the message dict log_message builds
Message(role, content, t) == [role |-> role, content |-> content, timestamp |-> IsoFormat(t)]

\* the keyspace after log_message's rpush
LogMessageCommands(kv, chat_id, role, content, t) ==
    RPush(kv, MessagesKey(chat_id), JsonDumps(Message(role, content, t)))

\* log_message(chat_id, role, content); fails: rpush raises, which is caught
log_message(chat_id, role, content, fails) ==
    /\ StoredCount < MaxMsgs
    /\ redis' = IF fails THEN redis ELSE LogMessageCommands(redis, chat_id, role, content, now)
    /\ appended' = IF fails THEN appended
                   ELSE [appended EXCEPT ![chat_id] = Append(@, [role |-> role, content |-> content])]
    /\ ret' = [NoRet EXCEPT !.op = "log_message", !.ok = ~fails]
    /\ UNCHANGED <<now, created>>

\* what get_chat_history(chat_id) returns; fails: lrange raises, which is caught
GetChatHistory(kv, chat_id, fails) ==
    IF fails THEN <<>>
    ELSE LET messages_json == LRange(kv, MessagesKey(chat_id))
         IN [i \in 1..Len(messages_json) |-> JsonLoads(messages_json[i])]

get_chat_history(chat_id, fails) ==
    /\ ret' = [NoRet EXCEPT !.op = "get_chat_history", !.chat_id = chat_id,
                            !.ok = ~fails, !.messages = GetChatHistory(redis, chat_id, fails)]
    /\ UNCHANGED <<redis, now, created, appended>>

\* time passes; keys whose timeout is reached are removed by the server
Tick ==
    /\ now < SESSION_TTL
    /\ now' = now + TickSeconds
    /\ redis' = Expired(redis, now + TickSeconds)
    /\ UNCHANGED <<created, appended, ret>>

----------------------------------------------------------------------------
(* The relational store and the filesystem *)

SEP == "/"
Digits == {"0", "1", "2", "3", "4", "5", "6", "7", "8", "9"}

\* fragment references: "chunk_1", "doc_a", "docs\b.txt", "docs/b.txt"
RefChunk == <<"chunk_", "1">>
RefStem == <<"doc_a">>
RefWinPath == <<"docs", BACKSLASH, "b.txt">>
RefPath == <<"docs", SEP, "b.txt">>
Refs == {RefChunk, RefStem, RefWinPath, RefPath}

\* fragment texts
TextX == <<"x">>
TextY == <<"y", "z">>
Texts == {TextX, TextY}

\* lists of at most n elements of S
RECURSIVE ListsUpTo(_, _)
ListsUpTo(S, n) ==
    IF n = 0 THEN {<<>>}
    ELSE LET shorter == ListsUpTo(S, n - 1)
         IN shorter \cup {Append(l, x) : l \in {m \in shorter : Len(m) = n - 1}, x \in S}

InSeq(x, q) == \E i \in 1..Len(q) : q[i] = x

\* a row of the Chunk table; embedding <<>> stands for NULL
ChunkRow(chunk_id, content, embedding, created_at) ==
    [chunk_id |-> chunk_id, content |-> content, embedding |-> embedding,
     created_at |-> created_at]

NoChunk == [chunk_id |-> <<>>, content |-> <<>>, embedding |-> <<>>, created_at |-> 0]

\* Chunk.objects.filter(chunk_id=chunk_id).first(); chunk_id is unique
ChunkFirst(chunk_id) ==
    IF \E row \in db : row.chunk_id = chunk_id
    THEN CHOOSE row \in db : row.chunk_id = chunk_id
    ELSE NoChunk

\* settings.BASE_DIR, and the same directory as rag_service computes it
BASE_DIR == <<SEP, "app">>

IsAbs(path) == path # <<>> /\ path[1] = SEP

\* os.path.join(a, b)
PathJoin(a, b) == IF IsAbs(b) THEN b ELSE a \o <<SEP>> \o b

CHUNKS_DIR == PathJoin(PathJoin(BASE_DIR, <<"data">>), <<"chunks">>)

\* chunk_id.replace('\\', '/')
RECURSIVE NormalizeSeparators(_)
NormalizeSeparators(path) ==
    IF path = <<>> THEN <<>>
    ELSE <<IF Head(path) = BACKSLASH THEN SEP ELSE Head(path)>>
            \o NormalizeSeparators(Tail(path))

\* os.path.basename(path): what follows the last "/"
RECURSIVE Basename(_)
Basename(path) ==
    IF \E i \in 1..Len(path) : path[i] = SEP
    THEN Basename(Tail(path))
    ELSE path

\* the files a model filesystem may hold
FsPaths ==
    {RefStem, RefPath, RefWinPath,
     PathJoin(BASE_DIR, RefPath),
     PathJoin(CHUNKS_DIR, RefStem),
     PathJoin(CHUNKS_DIR, <<"b.txt">>),
     PathJoin(CHUNKS_DIR, RefPath)}

NoFile == [is_file |-> FALSE, content |-> <<>>]
File(content) == [is_file |-> TRUE, content |-> content]

\* Path(path).exists() and Path(path).is_file()
IsFile(path) == path \in DOMAIN fs /\ fs[path].is_file

\* Path(path).read_text(encoding='utf-8')
ReadText(path) == fs[path].content

----------------------------------------------------------------------------
(* context_layer/pinecone_service.py: get_chunk_content *)

\* chunk_id.startswith("chunk_") and chunk_id[6:].isdigit()
IsDbChunkId(chunk_id) ==
    /\ Len(chunk_id) >= 2
    /\ chunk_id[1] = "chunk_"
    /\ \A i \in 2..Len(chunk_id) : chunk_id[i] \in Digits

\* paths_to_try of get_chunk_content and get_chunks_for_display
PathsToTry(file_path) ==
    <<file_path,
      PathJoin(BASE_DIR, file_path),
      PathJoin(CHUNKS_DIR, Basename(file_path)),
      PathJoin(CHUNKS_DIR, file_path)>>

NoContent == [all_content |-> <<>>, seen_content |-> {}]

AddContent(acc, content) ==
    [all_content |-> Append(acc.all_content, content),
     seen_content |-> acc.seen_content \cup {content}]

\* the database loop with the early "continue" taken as a second append:
\* a text already seen is emitted again
RECURSIVE ContentFromDatabaseNoDedup(_, _, _, _)
ContentFromDatabaseNoDedup(chunk_ids, i, acc, db_raises) ==
    IF i > Len(chunk_ids) THEN acc
    ELSE LET chunk == ChunkFirst(chunk_ids[i]) IN
         IF ~db_raises /\ chunk # NoChunk /\ chunk.content # <<>>
         THEN ContentFromDatabaseNoDedup(chunk_ids, i + 1, AddContent(acc, chunk.content),
                                         db_raises)
         ELSE ContentFromDatabaseNoDedup(chunk_ids, i + 1, acc, db_raises)

\* the loop over chunk_ids against the database, from position i;
\* db_raises: the lookups of this call raise (each is caught and logged)
RECURSIVE ContentFromDatabase(_, _, _, _)
ContentFromDatabase(chunk_ids, i, acc, db_raises) ==
    IF i > Len(chunk_ids) THEN acc
    ELSE LET chunk == ChunkFirst(chunk_ids[i]) IN
         IF ~db_raises /\ chunk # NoChunk /\ chunk.content # <<>>
               /\ chunk.content \notin acc.seen_content
         THEN ContentFromDatabase(chunk_ids, i + 1, AddContent(acc, chunk.content), db_raises)
         ELSE ContentFromDatabase(chunk_ids, i + 1, acc, db_raises)

\* the loop over paths_to_try from position j: the first file whose text is
\* non-empty and not yet seen is added, and the loop breaks
RECURSIVE ContentFromPaths(_, _, _)
ContentFromPaths(paths, j, acc) ==
    IF j > Len(paths) THEN acc
    ELSE IF IsFile(paths[j]) /\ ReadText(paths[j]) # <<>>
              /\ ReadText(paths[j]) \notin acc.seen_content
         THEN AddContent(acc, ReadText(paths[j]))
         ELSE ContentFromPaths(paths, j + 1, acc)

\* the loop over chunk_ids against the filesystem, from position i
RECURSIVE ContentFromFiles(_, _, _)
ContentFromFiles(chunk_ids, i, acc) ==
    IF i > Len(chunk_ids) THEN acc
    ELSE IF IsDbChunkId(chunk_ids[i])
         THEN ContentFromFiles(chunk_ids, i + 1, acc)
         ELSE ContentFromFiles(chunk_ids, i + 1,
                 ContentFromPaths(PathsToTry(NormalizeSeparators(chunk_ids[i])), 1, acc))

PARAGRAPH == "\n\n"

\* "\n\n".join(blocks)
RECURSIVE JoinParagraphs(_)
JoinParagraphs(blocks) ==
    IF blocks = <<>> THEN <<>>
    ELSE IF Len(blocks) = 1 THEN blocks[1]
    ELSE blocks[1] \o <<PARAGRAPH>> \o JoinParagraphs(Tail(blocks))

\* get_chunk_content(chunk_ids)
get_chunk_content(chunk_ids, db_raises) ==
    IF chunk_ids = <<>> THEN <<>>
    ELSE LET from_db == IF cfg.DATABASE_AVAILABLE
                        THEN ContentFromDatabase(chunk_ids, 1, NoContent, db_raises)
                        ELSE NoContent
             from_files == ContentFromFiles(chunk_ids, 1, from_db)
         IN JoinParagraphs(from_files.all_content)

----------------------------------------------------------------------------
(* context_layer/pinecone_service.py: search_similar_documents *)

TOP_K_DEFAULT == 50

\* the metadata of one match: has_metadata FALSE is a match that carries
\* none; a key the metadata lacks reads as None
Metadata(chunk_id, file_path) ==
    [has_metadata |-> TRUE, chunk_id |-> chunk_id, file_path |-> file_path]

NoMetadata == [has_metadata |-> FALSE, chunk_id |-> None, file_path |-> None]

\* the outcome of the vector index for one call: index FALSE is
\* get_pinecone_index() returning None, raises is index.query raising
VectorAnswer(index, raises, matches) ==
    [index |-> index, raises |-> raises, matches |-> matches]

NoCandidates == [chunk_ids |-> <<>>, seen_paths |-> {}, raised |-> FALSE]

\* the loop over the matches, from position i.  With the new API a match
\* without metadata has metadata None, and metadata.get raises; with the old
\* API match.get('metadata', {}) gives an empty dict
RECURSIVE CollectCandidates(_, _, _)
CollectCandidates(matches, i, acc) ==
    IF i > Len(matches) THEN acc
    ELSE LET m == matches[i]
             chunk_id == m.chunk_id
             file_path == m.file_path
             normalized == NormalizeSeparators(file_path)
         IN IF ~m.has_metadata /\ cfg.PINECONE_NEW_API
            THEN [acc EXCEPT !.raised = TRUE]
            ELSE IF Truthy(chunk_id) /\ chunk_id \notin acc.seen_paths
            THEN CollectCandidates(matches, i + 1,
                    [acc EXCEPT !.chunk_ids = Append(@, chunk_id),
                                !.seen_paths = @ \cup {chunk_id}])
            ELSE IF Truthy(file_path) /\ file_path \notin acc.seen_paths
            THEN CollectCandidates(matches, i + 1,
                    [acc EXCEPT !.chunk_ids = Append(@, normalized),
                                !.seen_paths = @ \cup {normalized}])
            ELSE CollectCandidates(matches, i + 1, acc)

\* the rows of a set, latest created_at first
RECURSIVE OrderByCreatedDesc(_)
OrderByCreatedDesc(rows) ==
    IF rows = {} THEN <<>>
    ELSE LET latest == CHOOSE r \in rows : \A o \in rows : o.created_at <= r.created_at
         IN <<latest>> \o OrderByCreatedDesc(rows \ {latest})

\* q[:n]
Take(q, n) == SubSeq(q, 1, IF Len(q) < n THEN Len(q) ELSE n)

\* the branch on the vector index (lines 122-182): the candidates it
\* returns, or none when the function falls through to the database
VectorSearch(vector, top_k) ==
    IF cfg.PINECONE_AVAILABLE /\ vector.index
    THEN IF vector.raises THEN [chunk_ids |-> <<>>, events |-> <<"index.query">>]
         ELSE LET got == CollectCandidates(vector.matches, 1, NoCandidates)
              IN [chunk_ids |-> IF got.raised THEN <<>> ELSE got.chunk_ids,
                  events |-> <<"index.query">>]
    ELSE [chunk_ids |-> <<>>, events |-> <<>>]

\* the database branch left out: the function returns [] as soon as the
\* vector index gave nothing
DatabaseSearchSkipped(embedding, top_k, db_raises) ==
    [chunk_ids |-> <<>>, events |-> <<>>]

\* the database branch (lines 184-209)
DatabaseSearch(embedding, top_k, db_raises) ==
    IF cfg.DATABASE_AVAILABLE
    THEN IF db_raises THEN [chunk_ids |-> <<>>, events |-> <<"Chunk.objects">>]
         ELSE LET chunks_with_embeddings == {row \in db : row.embedding # <<>>}
                  ordered == OrderByCreatedDesc(chunks_with_embeddings)
              IN [chunk_ids |-> [i \in 1..Len(Take(ordered, top_k)) |-> ordered[i].chunk_id],
                  events |-> <<"Chunk.objects">>]
    ELSE [chunk_ids |-> <<>>, events |-> <<>>]

\* search_similar_documents(embedding, top_k): the list it returns and the
\* queries it sent, in the order it sent them
search_similar_documents(embedding, top_k, vector, db_raises) ==
    LET first == VectorSearch(vector, top_k) IN
    IF first.chunk_ids # <<>> THEN first
    ELSE LET second == DatabaseSearch(embedding, top_k, db_raises)
         IN [chunk_ids |-> second.chunk_ids, events |-> first.events \o second.events]

----------------------------------------------------------------------------
(* model_layer/embedding_service.py, model_layer/gemini_service.py,
   prompt_layer/base_template.py *)

\* an embedding result: None, or a list of numbers
NoneEmbedding == [is_none |-> TRUE, values |-> <<>>]
Embedding(values) == [is_none |-> FALSE, values |-> values]

\* "query_embedding is not None"
EmbeddingNotNone(e) == ~e.is_none

\* bool(query_embedding)
EmbeddingTruthy(e) == ~e.is_none /\ e.values # <<>>

\* what the embedding backend does for one call: the client is missing,
\* embed_content raises, or it returns values (None, empty, or a vector)
EmbedOutcomes == {"no_client", "raises", "none", "empty", "values"}

\* get_embedding(text)
get_embedding(text, outcome) ==
    CASE outcome = "no_client" -> NoneEmbedding
      [] outcome = "raises" -> NoneEmbedding
      [] outcome = "none" -> NoneEmbedding
      [] outcome = "empty" -> Embedding(<<>>)
      [] OTHER -> Embedding(<<1, 0>>)

\* what the generation backend does for one call: the client is missing,
\* generate_content raises, or response.text is None, empty, or a text
GenOutcomes == {"no_client", "raises", "none", "empty", "text"}

GEN_NO_CLIENT == <<"Error: Gemini client not initialized. Missing API key.">>
GEN_APOLOGY == <<"I'm sorry, I encountered an error while generating a response.">>
GEN_ANSWER == <<"answer">>

\* generate_response(prompt)
generate_response(prompt, outcome) ==
    CASE outcome = "no_client" -> GEN_NO_CLIENT
      [] outcome = "raises" -> GEN_APOLOGY
      [] outcome = "none" -> None
      [] outcome = "empty" -> <<>>
      [] OTHER -> GEN_ANSWER

PROMPT_HEADER ==
    "\nBeantwoord de volgende vraag op basis van de verstrekte context.\nGeef een zo volledig en nauwkeurig mogelijk antwoord. \nLet op technische details.\n\n"
PROMPT_QUERY == "\n\n**Vraag:** "
PROMPT_CONTEXT == "\n\n**Context:** "
PROMPT_FOOTER == "\n\nAntwoord in het Nederlands.\n"

\* the template with the context placed before the query
CreatePromptContextFirst(query, context, chat_history) ==
    <<PROMPT_HEADER>> \o Str(chat_history) \o <<PROMPT_CONTEXT>> \o Str(context)
        \o <<PROMPT_QUERY>> \o Str(query) \o <<PROMPT_FOOTER>>

\* create_prompt(query, context, chat_history)
create_prompt(query, context, chat_history) ==
    <<PROMPT_HEADER>> \o Str(chat_history) \o <<PROMPT_QUERY>> \o Str(query)
        \o <<PROMPT_CONTEXT>> \o Str(context) \o <<PROMPT_FOOTER>>

----------------------------------------------------------------------------
(* context_layer/redis_service.py: format_chat_history_for_prompt *)

HISTORY_HEADER == "Previous conversation:\n\n"

\* the history block with every turn labelled "User"
RECURSIVE FormatTurnsAllUser(_)
FormatTurnsAllUser(messages) ==
    IF messages = <<>> THEN <<>>
    ELSE <<"User", ": ">> \o Str(Head(messages).content) \o <<PARAGRAPH>>
            \o FormatTurnsAllUser(Tail(messages))

\* the loop over the messages: f"{role}: {msg['content']}\n\n" for each
RECURSIVE FormatTurns(_)
FormatTurns(messages) ==
    IF messages = <<>> THEN <<>>
    ELSE LET msg == Head(messages)
             role == IF msg.role = <<"user">> THEN "User" ELSE "Assistant"
         IN <<role, ": ">> \o Str(msg.content) \o <<PARAGRAPH>> \o FormatTurns(Tail(messages))

\* the history block of a read that does not notice the store failing
FormatHistoryIgnoringFailure(kv, chat_id, fails) ==
    LET messages == GetChatHistory(kv, chat_id, FALSE) IN
    IF messages = <<>> THEN <<>>
    ELSE <<HISTORY_HEADER>> \o FormatTurns(messages)

\* format_chat_history_for_prompt(chat_id); fails: the store read raises
format_chat_history_for_prompt(kv, chat_id, fails) ==
    LET messages == GetChatHistory(kv, chat_id, fails) IN
    IF messages = <<>> THEN <<>>
    ELSE <<HISTORY_HEADER>> \o FormatTurns(messages)

----------------------------------------------------------------------------
(* context_layer/rag_service.py: the display fragments process_query builds *)

\* the working directory relative paths are resolved against
CWD == <<SEP, "srv">>

\* Path(path).name
PathName(path) == Basename(path)

\* Path(path).parts: the components between separators, the root first
RECURSIVE PartsFrom(_, _, _, _)
PartsFrom(path, i, part, parts) ==
    IF i > Len(path) THEN (IF part = <<>> THEN parts ELSE Append(parts, part))
    ELSE IF path[i] = SEP
         THEN PartsFrom(path, i + 1, <<>>, IF part = <<>> THEN parts ELSE Append(parts, part))
         ELSE PartsFrom(path, i + 1, Append(part, path[i]), parts)

PathParts(path) ==
    IF IsAbs(path) THEN <<<<SEP>>>> \o PartsFrom(path, 2, <<>>, <<>>)
    ELSE PartsFrom(path, 1, <<>>, <<>>)

\* '_' in part, part.startswith('chunk_'), part.startswith('ch') and len(part) > 2
HasUnderscore(part) == \E i \in 1..Len(part) : part[i] \in {"doc_a", "chunk_"}
StartsWithChunk(part) == part # <<>> /\ part[1] = "chunk_"
StartsWithCh(part) == part # <<>> /\ part[1] \in {"chunk_", "chunks"}

\* part.replace('_', ' ') (no part of the model holds a '-')
ReplaceUnderscores(part) ==
    [i \in 1..Len(part) |->
        IF part[i] = "doc_a" THEN "doc a" ELSE IF part[i] = "chunk_" THEN "chunk " ELSE part[i]]

\* the first of the parts at the given positions, <<>> when there is none
FirstPart(parts, hits) ==
    IF hits = {} THEN <<>> ELSE parts[CHOOSE i \in hits : \A j \in hits : i <= j]

\* the title of a fragment read from file_path (lines 75-98)
DisplayTitle(file_path) ==
    LET parts == PathParts(file_path)
        doc_part == FirstPart(parts, {i \in 1..Len(parts) :
                        HasUnderscore(parts[i]) /\ ~StartsWithChunk(parts[i])})
        section_part == FirstPart(parts, {i \in 1..Len(parts) : StartsWithCh(parts[i])})
        doc_name == ReplaceUnderscores(doc_part)
        section == ReplaceUnderscores(section_part)
    IN IF doc_part # <<>> /\ section_part # <<>> THEN doc_name \o <<" - ">> \o section
       ELSE IF doc_part # <<>> THEN doc_name
       ELSE PathName(file_path)

\* os.path.relpath(file_path, BASE_DIR)
RelPath(file_path) ==
    LET abs == IF IsAbs(file_path) THEN file_path ELSE PathJoin(CWD, file_path)
        n == Len(BASE_DIR)
    IN IF Len(abs) > n + 1 /\ SubSeq(abs, 1, n) = BASE_DIR /\ abs[n + 1] = SEP
       THEN SubSeq(abs, n + 2, Len(abs))
       ELSE <<"..">> \o abs

\* the directories os.walk(CHUNKS_DIR) visits, in its order
WalkDirs == <<CHUNKS_DIR, PathJoin(CHUNKS_DIR, <<"docs">>)>>

\* the file a reference is read from (lines 45-65): the path itself, else the
\* file of that name in CHUNKS_DIR, else the first one os.walk finds; <<>>
\* when there is none
ChunkFile(path) ==
    LET filename == PathName(path)
        found == {i \in 1..Len(WalkDirs) : IsFile(PathJoin(WalkDirs[i], filename))}
    IN IF IsFile(path) THEN path
       ELSE IF IsFile(PathJoin(CHUNKS_DIR, filename)) THEN PathJoin(CHUNKS_DIR, filename)
       ELSE IF found # {}
            THEN PathJoin(WalkDirs[CHOOSE i \in found : \A j \in found : i <= j], filename)
       ELSE <<>>

\* the loop over chunk_paths (lines 41-114), from position i
RECURSIVE DisplayChunks(_, _)
DisplayChunks(chunk_paths, i) ==
    IF i > Len(chunk_paths) THEN <<>>
    ELSE LET file_path == ChunkFile(chunk_paths[i]) IN
         IF file_path = <<>> THEN DisplayChunks(chunk_paths, i + 1)
         ELSE <<[id |-> PathName(file_path),
                 title |-> DisplayTitle(file_path),
                 path |-> RelPath(file_path),
                 content |-> ReadText(file_path)]>> \o DisplayChunks(chunk_paths, i + 1)

----------------------------------------------------------------------------
(* api/views.py ChatView.post and context_layer/rag_service.py process_query *)

Reqs == 1..NumReqs

\* prior: the turns of the session when the request came in; store_failed: a
\* session store call of this request raised; store_reached: one of them did
\* not; backends_down: the search found the vector index unavailable or raising
\* and the relational store unavailable or raising (all history, not program state)

\* the query texts a client sends: none, empty, whitespace only, a question
Queries == {None, <<>>, <<" ", "\t", "\n">>, <<"a", QUOTE>>}

EMBEDDING_FAILED == <<"Failed to generate embeddings for your query.">>
NOTHING_FOUND == <<"No relevant documentation found for your query.">>
QUERY_REQUIRED == <<"Query is required">>

\* the session steps run whatever the chat id is
HasSessionAlways(chat_id) == TRUE

\* "if chat_id:" (lines 118 and 130)
HasSession(chat_id) == chat_id # NoChatId

IdleReq ==
    [pc |-> "idle", query |-> None, chat_id |-> NoChatId, prior |-> <<>>,
     store_failed |-> FALSE, store_reached |-> FALSE, backends_down |-> FALSE,
     query_embedding |-> NoneEmbedding, chunk_paths |-> <<>>, context |-> <<>>, chunks |-> <<>>, chat_history |-> <<>>,
     prompt |-> <<>>, response |-> None, calls |-> <<>>, logged |-> <<>>,
     status |-> 0, error |-> <<>>, result |-> [response |-> None, chunks |-> <<>>]]

\* process_query returns result; ChatView.post answers 200 with it
Returned(r, result) ==
    [r EXCEPT !.pc = "done", !.status = 200, !.result = result]

\* "if not query" (views.py line 76)
RejectsQuery(query) == ~Truthy(query)

\* ChatView.post up to the call of process_query
ChatViewPost(r, query, chat_id) ==
    /\ req[r].pc = "idle"
    /\ served' = served + 1
    /\ req' = [req EXCEPT ![r] =
          IF RejectsQuery(query)
          THEN [IdleReq EXCEPT !.pc = "done", !.query = query, !.chat_id = chat_id,
                               !.status = 400, !.error = QUERY_REQUIRED]
          ELSE [IdleReq EXCEPT !.pc = "embed", !.query = query, !.chat_id = chat_id,
                               !.prior = IF chat_id = NoChatId THEN <<>> ELSE appended[chat_id],
                               !.calls = <<"process_query">>]]
    /\ UNCHANGED <<storeVars, envVars, probe>>

\* Step 1 that logs the query and the fixed text before its early return
EmbedQueryLoggingFailure(r, outcome) ==
    /\ req[r].pc = "embed"
    /\ LET query_embedding == get_embedding(req[r].query, outcome)
           called == [req[r] EXCEPT !.query_embedding = query_embedding,
                                    !.calls = Append(@, "get_embedding")]
           turns == <<[role |-> <<"user">>, content |-> req[r].query],
                      [role |-> <<"assistant">>, content |-> EMBEDDING_FAILED]>>
       IN /\ req' = [req EXCEPT ![r] =
                IF ~EmbeddingTruthy(query_embedding)
                THEN Returned(called, [response |-> EMBEDDING_FAILED, chunks |-> <<>>])
                ELSE [called EXCEPT !.pc = "search"]]
          /\ IF ~EmbeddingTruthy(query_embedding) /\ HasSession(req[r].chat_id)
             THEN /\ redis' = LogMessageCommands(
                                  LogMessageCommands(redis, req[r].chat_id, turns[1].role,
                                                     turns[1].content, now),
                                  req[r].chat_id, turns[2].role, turns[2].content, now)
                  /\ appended' = [appended EXCEPT ![req[r].chat_id] = @ \o turns]
                  /\ UNCHANGED <<now, created, ret>>
             ELSE UNCHANGED storeVars
    /\ UNCHANGED <<envVars, probe, served>>

\* Step 1 (lines 24-27)
EmbedQuery(r, outcome) ==
    /\ req[r].pc = "embed"
    /\ LET query_embedding == get_embedding(req[r].query, outcome)
           called == [req[r] EXCEPT !.query_embedding = query_embedding,
                                    !.calls = Append(@, "get_embedding")]
       IN req' = [req EXCEPT ![r] =
            IF ~EmbeddingTruthy(query_embedding)
            THEN Returned(called, [response |-> EMBEDDING_FAILED, chunks |-> <<>>])
            ELSE [called EXCEPT !.pc = "search"]]
    /\ UNCHANGED <<storeVars, envVars, probe, served>>

\* the vector index is unavailable or its query raises, and the relational
\* store is unavailable or its query raises
BackendsDown(vector, db_raises) ==
    /\ ~cfg.PINECONE_AVAILABLE \/ ~vector.index \/ vector.raises
    /\ ~cfg.DATABASE_AVAILABLE \/ db_raises

\* Step 2 without the early return of lines 32-33
SearchCandidatesNoReturn(r, vector, db_raises) ==
    /\ req[r].pc = "search"
    /\ LET found == search_similar_documents(req[r].query_embedding.values, TOP_K_DEFAULT,
                                              vector, db_raises)
       IN req' = [req EXCEPT ![r].calls = Append(@, "search_similar_documents")
                                               \o found.events,
                             ![r].chunk_paths = found.chunk_ids,
                             ![r].backends_down = BackendsDown(vector, db_raises),
                             ![r].pc = "resolve"]
    /\ UNCHANGED <<storeVars, envVars, probe, served>>

\* Step 2 (lines 29-33)
SearchCandidates(r, vector, db_raises) ==
    /\ req[r].pc = "search"
    /\ LET found == search_similar_documents(req[r].query_embedding.values, TOP_K_DEFAULT,
                                              vector, db_raises)
           called == [req[r] EXCEPT !.calls = Append(@, "search_similar_documents")
                                               \o found.events,
                                    !.chunk_paths = found.chunk_ids,
                                    !.backends_down = BackendsDown(vector, db_raises)]
       IN req' = [req EXCEPT ![r] =
            IF found.chunk_ids = <<>>
            THEN Returned(called, [response |-> NOTHING_FOUND, chunks |-> <<>>])
            ELSE [called EXCEPT !.pc = "resolve"]]
    /\ UNCHANGED <<storeVars, envVars, probe, served>>

\* Step 3 (lines 35-37)
ResolveContext(r, db_raises) ==
    /\ req[r].pc = "resolve"
    /\ req' = [req EXCEPT ![r].pc = "display",
                          ![r].context = get_chunk_content(req[r].chunk_paths, db_raises),
                          ![r].calls = Append(@, "get_chunk_content")]
    /\ UNCHANGED <<storeVars, envVars, probe, served>>

\* "Prepare chunks for the frontend" (lines 39-114)
ResolveDisplayFragments(r) ==
    /\ req[r].pc = "display"
    /\ req' = [req EXCEPT ![r].pc = "history",
                          ![r].chunks = DisplayChunks(req[r].chunk_paths, 1)]
    /\ UNCHANGED <<storeVars, envVars, probe, served>>

\* Step 4 (lines 116-119); fails: the store read raises inside get_chat_history
LoadHistory(r, fails) ==
    /\ req[r].pc = "history"
    /\ req' = [req EXCEPT ![r] =
          IF HasSession(req[r].chat_id)
          THEN [@ EXCEPT !.pc = "prompt",
                         !.store_failed = fails,
                         !.store_reached = ~fails,
                         !.chat_history =
                             format_chat_history_for_prompt(redis, req[r].chat_id, fails),
                         !.calls = Append(@, "format_chat_history_for_prompt")]
          ELSE [@ EXCEPT !.pc = "prompt"]]
    /\ (fails => HasSession(req[r].chat_id))
    /\ UNCHANGED <<storeVars, envVars, probe, served>>

\* Step 5 (lines 121-123)
BuildPrompt(r) ==
    /\ req[r].pc = "prompt"
    /\ req' = [req EXCEPT ![r].pc = "generate",
                          ![r].prompt = create_prompt(req[r].query, req[r].context,
                                                      req[r].chat_history),
                          ![r].calls = Append(@, "create_prompt")]
    /\ UNCHANGED <<storeVars, envVars, probe, served>>

\* generation that goes back to prompt building when the backend raises
GenerateRetrying(r, outcome) ==
    /\ req[r].pc = "generate"
    /\ req' = [req EXCEPT ![r].pc = IF outcome = "raises" THEN "prompt" ELSE "log_user",
                          ![r].response = generate_response(req[r].prompt, outcome),
                          ![r].calls = Append(@, "generate_response")]
    /\ UNCHANGED <<storeVars, envVars, probe, served>>

\* Step 6 (lines 125-127), and the return (lines 136-139) when there is no chat id
Generate(r, outcome) ==
    /\ req[r].pc = "generate"
    /\ LET response == generate_response(req[r].prompt, outcome)
           called == [req[r] EXCEPT !.response = response,
                                    !.calls = Append(@, "generate_response")]
       IN req' = [req EXCEPT ![r] =
            IF HasSession(req[r].chat_id) THEN [called EXCEPT !.pc = "log_user"]
            ELSE Returned(called, [response |-> response, chunks |-> req[r].chunks])]
    /\ UNCHANGED <<storeVars, envVars, probe, served>>

\* log_message with one list for every session
PipelineLogSharedKey(chat_id, role, content, fails) ==
    /\ redis' = IF fails THEN redis ELSE LogMessageCommands(redis, "s1", role, content, now)
    /\ appended' = IF fails THEN appended
                   ELSE [appended EXCEPT !["s1"] = Append(@, [role |-> role, content |-> content])]
    /\ UNCHANGED <<now, created, ret>>

\* the store after log_message(chat_id, role, content) called by the pipeline
PipelineLog(chat_id, role, content, fails) ==
    /\ redis' = IF fails THEN redis ELSE LogMessageCommands(redis, chat_id, role, content, now)
    /\ appended' = IF fails THEN appended
                   ELSE [appended EXCEPT ![chat_id] = Append(@, [role |-> role, content |-> content])]
    /\ UNCHANGED <<now, created, ret>>

\* Step 7, first call: log_message(chat_id, "user", query) (line 132)
LogUserTurn(r, fails) ==
    /\ req[r].pc = "log_user"
    /\ PipelineLog(req[r].chat_id, <<"user">>, req[r].query, fails)
    /\ req' = [req EXCEPT ![r].pc = "log_assistant",
                          ![r].store_failed = @ \/ fails,
                          ![r].store_reached = @ \/ ~fails,
                          ![r].logged = IF fails THEN @
                                        ELSE Append(@, [role |-> <<"user">>, content |-> req[r].query]),
                          ![r].calls = Append(@, "log_message")]
    /\ UNCHANGED <<envVars, probe, served>>

\* Step 7, second call: log_message(chat_id, "assistant", response) (line 134),
\* and the return (lines 136-139)
LogAssistantTurn(r, fails) ==
    /\ req[r].pc = "log_assistant"
    /\ PipelineLog(req[r].chat_id, <<"assistant">>, req[r].response, fails)
    /\ req' = [req EXCEPT ![r] =
          Returned([@ EXCEPT !.store_failed = @ \/ fails,
                             !.store_reached = @ \/ ~fails,
                             !.logged = IF fails THEN @
                                        ELSE Append(@, [role |-> <<"assistant">>,
                                                        content |-> req[r].response]),
                             !.calls = Append(@, "log_message")],
                   [response |-> req[r].response, chunks |-> req[r].chunks])]
    /\ UNCHANGED <<envVars, probe, served>>

\* the response is sent; the slot takes the next request
Finish(r) ==
    /\ req[r].pc = "done"
    /\ req' = [req EXCEPT ![r] = IdleReq]
    /\ UNCHANGED <<storeVars, envVars, probe, served>>

----------------------------------------------------------------------------
(* The session store under direct calls *)

InitSessionStore ==
    /\ redis = EmptyRedis
    /\ now = 0
    /\ created = [id \in ChatIds |-> -1]
    /\ appended = [id \in ChatIds |-> <<>>]
    /\ ret = NoRet

NoVector == VectorAnswer(FALSE, FALSE, <<>>)

NoProbe == [op |-> "none", chunk_ids |-> <<>>, db_raises |-> FALSE, text |-> <<>>,
            top_k |-> 0, vector |-> NoVector, events |-> <<>>]

\* no relational store, no files, no adapter called
InitNoEnv ==
    /\ cfg = [PINECONE_AVAILABLE |-> FALSE, PINECONE_NEW_API |-> FALSE,
              DATABASE_AVAILABLE |-> FALSE]
    /\ db = {}
    /\ fs = [path \in FsPaths |-> NoFile]
    /\ documents = {}
    /\ probe = NoProbe
    /\ req = [r \in Reqs |-> IdleReq]
    /\ served = 0

NextStore ==
    \/ \E fail_at \in 0..3 : create_chat_session(fail_at)
    \/ \E chat_id \in ChatIds, role \in Roles, content \in Contents, fails \in BOOLEAN :
          log_message(chat_id, role, content, fails)
    \/ \E chat_id \in ChatIds, fails \in BOOLEAN : get_chat_history(chat_id, fails)
    \/ Tick

\* the session store alone: nothing else is configured
InitStore == InitSessionStore /\ InitNoEnv

SpecStore == InitStore /\ [][NextStore /\ UNCHANGED <<envVars, probe, reqVars>>]_vars

----------------------------------------------------------------------------
(* The fragment content resolver under direct calls *)

\* the Chunk tables: "chunk_1" and "doc_a", each absent or with some content
DbTables ==
    {{row \in {ChunkRow(RefChunk, c1, <<1>>, 1), ChunkRow(RefStem, c2, <<1>>, 2)} :
        row.content # <<"absent">>} : c1, c2 \in Texts \cup {<<>>, <<"absent">>}}

\* the filesystems: at most MaxFiles files, each with some text
Filesystems ==
    {f \in [FsPaths -> {NoFile} \cup {File(t) : t \in Texts}] :
        Cardinality({path \in FsPaths : f[path].is_file}) <= MaxFiles}

InitResolve ==
    /\ InitSessionStore
    /\ cfg \in [PINECONE_AVAILABLE : {FALSE}, PINECONE_NEW_API : {FALSE},
                 DATABASE_AVAILABLE : BOOLEAN]
    /\ db \in DbTables
    /\ fs \in Filesystems
    /\ documents = {}
    /\ probe = NoProbe
    /\ req = [r \in Reqs |-> IdleReq]
    /\ served = 0

CallGetChunkContent(chunk_ids, db_raises) ==
    /\ probe.op = "none"
    /\ probe' = [NoProbe EXCEPT !.op = "get_chunk_content", !.chunk_ids = chunk_ids,
                                !.db_raises = db_raises,
                                !.text = get_chunk_content(chunk_ids, db_raises)]
    /\ UNCHANGED <<storeVars, envVars, reqVars>>

NextResolve ==
    \E chunk_ids \in ListsUpTo(Refs, MaxRefs), db_raises \in BOOLEAN :
        /\ (db_raises => cfg.DATABASE_AVAILABLE)
        /\ CallGetChunkContent(chunk_ids, db_raises)

SpecResolve == InitResolve /\ [][NextResolve]_vars

----------------------------------------------------------------------------
(* The similarity search under direct calls *)

\* the Chunk tables: "chunk_1" and "doc_a", each absent, without or with an
\* embedding; "doc_a" is the later row
EmbeddedTables ==
    {{row \in {ChunkRow(RefChunk, TextX, e1, 1), ChunkRow(RefStem, TextY, e2, 2)} :
        row.embedding # <<"absent">>} :
        e1, e2 \in {<<>>, <<1, 0>>, <<0, 1>>, <<"absent">>}}

MatchMetadata ==
    {NoMetadata} \cup {Metadata(c, f) : c \in {None, RefChunk, RefStem},
                                        f \in {None, RefWinPath, RefPath}}

\* the answers of the vector index; without an index there is no query
VectorAnswers ==
    {NoVector} \cup {VectorAnswer(TRUE, TRUE, <<>>)}
        \cup {VectorAnswer(TRUE, FALSE, m) : m \in ListsUpTo(MatchMetadata, MaxMatches)}

QueryEmbedding == <<1, 0>>

InitSearch ==
    /\ InitSessionStore
    /\ cfg \in {c \in [PINECONE_AVAILABLE : BOOLEAN, PINECONE_NEW_API : BOOLEAN,
                        DATABASE_AVAILABLE : BOOLEAN] :
                    c.PINECONE_NEW_API => c.PINECONE_AVAILABLE}
    /\ db \in EmbeddedTables
    /\ fs = [path \in FsPaths |-> NoFile]
    /\ documents = {}
    /\ probe = NoProbe
    /\ req = [r \in Reqs |-> IdleReq]
    /\ served = 0

CallSearch(top_k, vector, db_raises) ==
    /\ probe.op = "none"
    /\ LET found == search_similar_documents(QueryEmbedding, top_k, vector, db_raises)
       IN probe' = [NoProbe EXCEPT !.op = "search_similar_documents", !.top_k = top_k,
                                   !.vector = vector, !.db_raises = db_raises,
                                   !.chunk_ids = found.chunk_ids, !.events = found.events]
    /\ UNCHANGED <<storeVars, envVars, reqVars>>

NextSearch ==
    \E top_k \in {1, TOP_K_DEFAULT}, vector \in VectorAnswers, db_raises \in BOOLEAN :
        /\ (vector # NoVector => cfg.PINECONE_AVAILABLE)
        /\ Len(vector.matches) <= top_k
        /\ (db_raises => cfg.DATABASE_AVAILABLE)
        /\ CallSearch(top_k, vector, db_raises)

SpecSearch == InitSearch /\ [][NextSearch]_vars

----------------------------------------------------------------------------
(* The chat endpoint: requests served one at a time *)

\* the relational stores and filesystems the endpoint runs against
PipelineTables ==
    {{},
     {ChunkRow(RefChunk, TextX, <<1, 0>>, 1), ChunkRow(RefStem, <<>>, <<0, 1>>, 2)}}

PipelineFilesystems ==
    {[path \in FsPaths |-> NoFile],
     [path \in FsPaths |-> IF path = PathJoin(CHUNKS_DIR, <<"b.txt">>) THEN File(TextY)
                            ELSE NoFile]}

\* the turns an earlier request left in session "s1": its question and answer
EarlierTurns ==
    <<[role |-> <<"user">>, content |-> <<"a", QUOTE>>],
      [role |-> <<"assistant">>, content |-> GEN_ANSWER]>>

\* the keyspace after log_message stored the given turns of a session
RECURSIVE Logged(_, _, _)
Logged(kv, chat_id, turns) ==
    IF turns = <<>> THEN kv
    ELSE Logged(LogMessageCommands(kv, chat_id, Head(turns).role, Head(turns).content, 0),
                chat_id, Tail(turns))

\* the answers of the vector index the endpoint sees: at most one match
PipelineVectorAnswers == {v \in VectorAnswers : Len(v.matches) <= 1}

\* the deployments: what is configured (settings.py and the adapters' imports)
Deployments ==
    {c \in [PINECONE_AVAILABLE : BOOLEAN, PINECONE_NEW_API : BOOLEAN,
            DATABASE_AVAILABLE : BOOLEAN] : c.PINECONE_NEW_API = c.PINECONE_AVAILABLE}

Init ==
    /\ now = 0
    /\ created = [id \in ChatIds |-> -1]
    /\ ret = NoRet
    /\ \E turns \in {<<>>, EarlierTurns} :
          /\ redis = Logged(EmptyRedis, "s1", turns)
          /\ appended = [id \in ChatIds |-> IF id = "s1" THEN turns ELSE <<>>]
    /\ cfg \in Deployments
    /\ db \in PipelineTables
    /\ fs \in PipelineFilesystems
    /\ documents = {}
    /\ probe = NoProbe
    /\ req = [r \in Reqs |-> IdleReq]
    /\ served = 0

\* no request is being served
AllIdle == \A r \in Reqs : req[r].pc = "idle"

\* the worker that takes the next request
FirstIdle == CHOOSE r \in Reqs : req[r].pc = "idle" /\ \A q \in Reqs : req[q].pc = "idle" => r <= q

Step(r) ==
    \/ \E outcome \in EmbedOutcomes : EmbedQuery(r, outcome)
    \/ \E vector \in PipelineVectorAnswers, db_raises \in BOOLEAN :
          /\ (vector # NoVector => cfg.PINECONE_AVAILABLE)
          /\ (db_raises => cfg.DATABASE_AVAILABLE)
          /\ SearchCandidates(r, vector, db_raises)
    \/ \E db_raises \in BOOLEAN :
          /\ (db_raises => cfg.DATABASE_AVAILABLE)
          /\ ResolveContext(r, db_raises)
    \/ ResolveDisplayFragments(r)
    \/ \E fails \in BOOLEAN : LoadHistory(r, fails)
    \/ BuildPrompt(r)
    \/ \E outcome \in GenOutcomes : Generate(r, outcome)
    \/ \E fails \in BOOLEAN : LogUserTurn(r, fails)
    \/ \E fails \in BOOLEAN : LogAssistantTurn(r, fails)
    \/ Finish(r)

Next ==
    \/ \E query \in Queries, chat_id \in ChatIds \cup {NoChatId} :
          AllIdle /\ served < MaxRequests /\ ChatViewPost(FirstIdle, query, chat_id)
    \/ \E r \in Reqs : Step(r)

Spec == Init /\ [][Next]_vars

\* one step out of each stage, enabled exactly when the stage's steps are (for
\* the history stage: the read that raises when there is a session, the skip
\* when there is none)
Advance(r) ==
    \/ \E outcome \in EmbedOutcomes : EmbedQuery(r, outcome)
    \/ SearchCandidates(r, NoVector, FALSE)
    \/ ResolveContext(r, FALSE)
    \/ ResolveDisplayFragments(r)
    \/ LoadHistory(r, HasSession(req[r].chat_id))
    \/ BuildPrompt(r)
    \/ \E outcome \in GenOutcomes : Generate(r, outcome)
    \/ LogUserTurn(r, TRUE)
    \/ LogAssistantTurn(r, TRUE)
    \/ Finish(r)

\* a request that was taken is served to its end: the interpreter runs the
\* next statement of process_query, so no request stays in a stage forever
\* the endpoint with documents in the relational store and on disk
InitLive ==
    /\ Init
    /\ db # {}
    /\ \E path \in FsPaths : fs[path] # NoFile

SpecLive == InitLive /\ [][Next]_vars /\ \A r \in Reqs : WF_vars(Advance(r))

\* Requests served in parallel: every worker takes one request that carries a
\* session id, and the steps of the workers interleave in any order.  The
\* deployment has the relational store only and the session store starts empty.
InitConcurrent ==
    /\ now = 0
    /\ created = [id \in ChatIds |-> -1]
    /\ ret = NoRet
    /\ redis = EmptyRedis
    /\ appended = [id \in ChatIds |-> <<>>]
    /\ cfg = [PINECONE_AVAILABLE |-> FALSE, PINECONE_NEW_API |-> FALSE,
              DATABASE_AVAILABLE |-> TRUE]
    /\ db = {ChunkRow(RefChunk, TextX, <<1, 0>>, 1), ChunkRow(RefStem, <<>>, <<0, 1>>, 2)}
    /\ fs = [path \in FsPaths |-> NoFile]
    /\ documents = {}
    /\ probe = NoProbe
    /\ req = [r \in Reqs |-> IdleReq]
    /\ served = 0

StepConcurrent(r) ==
    \/ EmbedQuery(r, "values")
    \/ SearchCandidates(r, NoVector, FALSE)
    \/ ResolveContext(r, FALSE)
    \/ ResolveDisplayFragments(r)
    \/ \E fails \in BOOLEAN : LoadHistory(r, fails)
    \/ BuildPrompt(r)
    \/ Generate(r, "text")
    \/ \E fails \in BOOLEAN : LogUserTurn(r, fails)
    \/ \E fails \in BOOLEAN : LogAssistantTurn(r, fails)

NextConcurrent ==
    \/ \E query \in Queries, chat_id \in ChatIds :
          /\ \E r \in Reqs : req[r].pc = "idle"
          /\ ChatViewPost(FirstIdle, query, chat_id)
    \/ \E r \in Reqs : StepConcurrent(r)

SpecConcurrent == InitConcurrent /\ [][NextConcurrent]_vars

----------------------------------------------------------------------------
(* Documents and their chunks (documents/models.py, documents/services.py) *)

Min(a, b) == IF a <= b THEN a ELSE b

\* str(n) of a natural number: its digits, as one piece of text
RECURSIVE Decimal(_)
Decimal(n) == IF n < 10 THEN ToString(n) ELSE Decimal(n \div 10) \o ToString(n % 10)

\* f"{n:03d}"
Pad3(n) ==
    IF n < 10 THEN "00" \o Decimal(n) ELSE IF n < 100 THEN "0" \o Decimal(n) ELSE Decimal(n)

\* a slice index as Python reads it: a negative one counts from the end, and
\* one outside the text is moved to its nearest end
SliceIndex(i, n) == IF i < 0 THEN (IF i + n < 0 THEN 0 ELSE i + n) ELSE Min(i, n)

\* content[start:end] of Python, 0-based and end-exclusive
Slice(content, start, end) ==
    SubSeq(content, SliceIndex(start, Len(content)) + 1, SliceIndex(end, Len(content)))

\* "not text.strip()": the text is empty or whitespace only
StripsToEmpty(text) == \A i \in 1..Len(text) : text[i] \in {" ", "\t", "\n"}

\* a file name is its stem followed by its suffix
SUFFIXES == {".md", ".txt"}

\* name.split('.')[0]
RECURSIVE BeforeFirstDot(_)
BeforeFirstDot(name) ==
    IF name = <<>> \/ Head(name) \in SUFFIXES THEN <<>>
    ELSE <<Head(name)>> \o BeforeFirstDot(Tail(name))

\* file.endswith('.txt')
EndsWithTxt(name) == name # <<>> /\ name[Len(name)] = ".txt"

\* Path(file_path).stem
PathStem(file_path) ==
    LET name == PathName(file_path) IN
    IF Len(name) > 1 /\ name[Len(name)] \in SUFFIXES THEN SubSeq(name, 1, Len(name) - 1)
    ELSE name

\* text.title()
TitleCase(text) == [i \in 1..Len(text) |-> IF text[i] = "doc a" THEN "Doc A" ELSE text[i]]

\* f"{doc_name.lower().replace(' ', '_')}.md"
DefaultFilename(doc_name) ==
    [i \in 1..Len(doc_name) |->
        IF doc_name[i] = "Doc A" THEN "doc_a"
        ELSE IF doc_name[i] = "Unknown Document" THEN "unknown_document"
        ELSE doc_name[i]] \o <<".md">>

\* rows of the Document and Chunk tables; id is the primary key, document the
\* foreign key, and an embedding of <<>> is the null column
DocumentRow(id, title, filename, content) ==
    [id |-> id, title |-> title, filename |-> filename, content |-> content]

StoredChunk(id, document, chunk_id, content, embedding) ==
    [id |-> id, document |-> document, chunk_id |-> chunk_id, content |-> content,
     embedding |-> embedding]

\* a primary key no row of the Document table has
NewId(table) ==
    IF table = {} THEN 1
    ELSE 1 + (CHOOSE n \in {row.id : row \in table} : \A row \in table : row.id <= n)

\* a primary key no row of the Chunk table has (the model's uuid4): the
\* document, the chunk_id and how many rows hold the two already
NewChunkId(table, document, chunk_id) ==
    <<document, chunk_id,
      Cardinality({row \in table : row.document = document /\ row.chunk_id = chunk_id})>>

\* Chunk.objects.create without the unique constraint on chunk_id
ChunkObjectsCreateUnconstrained(table, document, chunk_id, content) ==
    [raised |-> FALSE, id |-> NewChunkId(table, document, chunk_id),
     table |-> table \cup {StoredChunk(NewChunkId(table, document, chunk_id), document,
                                       chunk_id, content, <<>>)}]

\* Chunk.objects.create(document=..., chunk_id=..., content=...): the insert
\* raises IntegrityError when a row holds the chunk_id (unique=True)
ChunkObjectsCreate(table, document, chunk_id, content) ==
    IF \E row \in table : row.chunk_id = chunk_id
    THEN [raised |-> TRUE, id |-> <<>>, table |-> table]
    ELSE [raised |-> FALSE, id |-> NewChunkId(table, document, chunk_id),
          table |-> table \cup {StoredChunk(NewChunkId(table, document, chunk_id), document,
                                            chunk_id, content, <<>>)}]

\* chunk.embedding = embedding; chunk.save(): the row of that primary key
SaveEmbedding(table, id, embedding) ==
    {IF row.id = id THEN [row EXCEPT !.embedding = embedding] ELSE row : row \in table}

\* embedding = get_embedding(content); if embedding: set it and save
EmbedChunk(table, id, content, outcome) ==
    LET embedding == get_embedding(content, outcome) IN
    IF EmbeddingTruthy(embedding) THEN SaveEmbedding(table, id, embedding.values) ELSE table

\* the loop of Document.chunk_content from position start on (lines 45-75)
RECURSIVE ChunkContentLoop(_, _, _, _, _, _)
ChunkContentLoop(table, document, chunk_size, overlap, start, chunk_number) ==
    LET content == document.content
        end == Min(start + chunk_size, Len(content))
        chunk == ChunkObjectsCreate(table, document.id, <<"chunk_", Pad3(chunk_number)>>,
                                    Slice(content, start, end))
    IN IF start >= Len(content) THEN [raised |-> FALSE, table |-> table]
       ELSE IF chunk.raised THEN [raised |-> TRUE, table |-> table]
       ELSE ChunkContentLoop(chunk.table, document, chunk_size, overlap,
                             IF end < Len(content) THEN end - overlap ELSE Len(content),
                             chunk_number + 1)

\* Document.chunk_content(chunk_size, overlap): the table after the call and
\* whether the call raised
ChunkContent(table, document, chunk_size, overlap) ==
    LET others == {row \in table : row.document # document.id} IN
    IF document.content = <<>> THEN [raised |-> FALSE, table |-> others]
    ELSE ChunkContentLoop(others, document, chunk_size, overlap, 0, 1)

\* the loop of chunk_document from position i on, with made chunks created so
\* far (lines 48-78); outcome is what the embedding backend does during the
\* call
RECURSIVE ChunkDocumentLoop(_, _, _, _, _, _, _)
ChunkDocumentLoop(table, document, chunk_size, overlap, i, made, outcome) ==
    LET content == document.content
        chunk_content == Slice(content, i, i + chunk_size)
        chunk_id == BeforeFirstDot(document.filename) \o <<"_chunk_", Decimal(made + 1)>>
        chunk == ChunkObjectsCreate(table, document.id, chunk_id, chunk_content)
    IN IF i >= Len(content) THEN [raised |-> FALSE, table |-> table]
       ELSE IF StripsToEmpty(chunk_content)
            THEN ChunkDocumentLoop(table, document, chunk_size, overlap,
                                   i + (chunk_size - overlap), made, outcome)
       ELSE IF chunk.raised THEN [raised |-> TRUE, table |-> table]
       ELSE ChunkDocumentLoop(EmbedChunk(chunk.table, chunk.id, chunk_content, outcome),
                              document, chunk_size, overlap,
                              i + (chunk_size - overlap), made + 1, outcome)

\* chunk_document(document, chunk_size, overlap)
ChunkDocument(table, document, chunk_size, overlap, outcome) ==
    ChunkDocumentLoop(table, document, chunk_size, overlap, 0, 0, outcome)

\* the chunk files of the import directory and a file that is not one
ChunkFile001 == PathJoin(CHUNKS_DIR, <<"chunk_", "001", ".txt">>)
ChunkFileDocA == PathJoin(PathJoin(CHUNKS_DIR, <<"doc_a">>), <<"chunk_", "001", ".txt">>)
NotesFile == PathJoin(CHUNKS_DIR, <<"notes", ".md">>)
ImportPaths == {ChunkFile001, ChunkFileDocA, NotesFile}

\* os.walk(directory): the files of the directory in the order the system
\* lists them, then those of its subdirectory
ImportWalks ==
    {<<ChunkFile001, NotesFile, ChunkFileDocA>>, <<NotesFile, ChunkFile001, ChunkFileDocA>>}

\* the document name of a chunk file (lines 106-114)
DocName(file_path) ==
    LET parts == PathParts(file_path)
        part == FirstPart(parts, {i \in 1..Len(parts) :
                    HasUnderscore(parts[i]) /\ ~StartsWithChunk(parts[i])})
    IN IF part # <<>> THEN TitleCase(ReplaceUnderscores(part)) ELSE <<"Unknown Document">>

\* the body of the import loop for one file (lines 98-150) on the two tables;
\* raised: Document.objects.get_or_create found several documents of the
\* title, or the insert of the chunk failed
ImportFile(tables, file_path, outcome) ==
    LET content == ReadText(file_path)
        doc_name == DocName(file_path)
        titled == {d \in tables.documents : d.title = doc_name}
        document == IF titled # {} THEN CHOOSE d \in titled : TRUE
                    ELSE DocumentRow(NewId(tables.documents), doc_name, DefaultFilename(doc_name),
                                     <<"Document for chunk ">> \o PathName(file_path))
        held == {row \in tables.chunks : row.chunk_id = PathStem(file_path)}
        chunk == ChunkObjectsCreate(tables.chunks, document.id, PathStem(file_path), content)
        found == CHOOSE row \in held : TRUE
    IN IF Cardinality(titled) > 1 THEN [tables EXCEPT !.raised = TRUE]
       ELSE IF Cardinality(held) > 1
            THEN [tables EXCEPT !.raised = TRUE, !.documents = @ \cup {document}]
       ELSE IF held # {}
            THEN [raised |-> FALSE, documents |-> tables.documents \cup {document},
                  count |-> tables.count + 1,
                  chunks |-> IF found.embedding = <<>>
                             THEN EmbedChunk(tables.chunks, found.id, content, outcome)
                             ELSE tables.chunks]
       ELSE IF chunk.raised
            THEN [tables EXCEPT !.raised = TRUE, !.documents = @ \cup {document}]
       ELSE [raised |-> FALSE, documents |-> tables.documents \cup {document},
             count |-> tables.count + 1,
             chunks |-> EmbedChunk(chunk.table, chunk.id, content, outcome)]

\* import_chunks_from_directory over the files of a walk from position i on
RECURSIVE ImportLoop(_, _, _, _)
ImportLoop(tables, walk, i, outcome) ==
    IF i > Len(walk) \/ tables.raised THEN tables
    ELSE IF IsFile(walk[i]) /\ EndsWithTxt(PathName(walk[i]))
         THEN ImportLoop(ImportFile(tables, walk[i], outcome), walk, i + 1, outcome)
    ELSE ImportLoop(tables, walk, i + 1, outcome)

\* the last call on the documents: which, and whether it raised
DocumentsProbe(op, raised) == [op |-> op, raised |-> raised]

\* the chunk sizes and overlaps of the calls: the loops need overlap < chunk_size
ChunkParams == {p \in (1..MaxChunkSize) \X (0..MaxChunkSize) : p[2] < p[1]}

\* Document.chunk_content(chunk_size, overlap) on a stored document
chunk_content(document, chunk_size, overlap) ==
    /\ document \in documents
    /\ LET done == ChunkContent(db, document, chunk_size, overlap) IN
       /\ db' = done.table
       /\ probe' = DocumentsProbe("chunk_content", done.raised)
    /\ UNCHANGED <<storeVars, cfg, fs, documents, reqVars>>

\* chunk_document(document, chunk_size, overlap) on a stored document
chunk_document(document, chunk_size, overlap, outcome) ==
    /\ document \in documents
    /\ LET done == ChunkDocument(db, document, chunk_size, overlap, outcome) IN
       /\ db' = done.table
       /\ probe' = DocumentsProbe("chunk_document", done.raised)
    /\ UNCHANGED <<storeVars, cfg, fs, documents, reqVars>>

\* import_chunks_from_directory(CHUNKS_DIR)
import_chunks_from_directory(walk, outcome) ==
    /\ LET done == ImportLoop([raised |-> FALSE, documents |-> documents, chunks |-> db,
                               count |-> 0], walk, 1, outcome) IN
       /\ db' = done.chunks
       /\ documents' = done.documents
       /\ probe' = DocumentsProbe("import_chunks_from_directory", done.raised)
    /\ UNCHANGED <<storeVars, cfg, fs, reqVars>>

\* a text long enough for every content, with blanks in it
SampleText == <<"a", " ", " ", "b", "c">>

DocumentContents == {SubSeq(SampleText, 1, Min(n, Len(SampleText))) : n \in 0..MaxContentLen}

\* two documents, which may have the same file name
DocumentTables ==
    {{DocumentRow(1, <<"Guide">>, <<"guide", ".md">>, c1),
      DocumentRow(2, <<"Doc A">>, f2, TextY)} :
        c1 \in DocumentContents, f2 \in {<<"guide", ".md">>, <<"doc_a", ".md">>}}

\* the import directory: the notes file, with or without the two chunk files
ImportFilesystems ==
    {[path \in ImportPaths |->
        IF path = NotesFile THEN File(TextX)
        ELSE IF path \in present THEN File(IF path = ChunkFile001 THEN TextX ELSE TextY)
        ELSE NoFile] : present \in {{}, {ChunkFile001, ChunkFileDocA}}}

InitDocuments ==
    /\ InitSessionStore
    /\ cfg = [PINECONE_AVAILABLE |-> FALSE, PINECONE_NEW_API |-> FALSE,
              DATABASE_AVAILABLE |-> TRUE]
    /\ db = {}
    /\ fs \in ImportFilesystems
    /\ documents \in DocumentTables
    /\ probe = NoProbe
    /\ req = [r \in Reqs |-> IdleReq]
    /\ served = 0

NextDocuments ==
    \/ \E document \in documents, p \in ChunkParams : chunk_content(document, p[1], p[2])
    \/ \E document \in documents, p \in ChunkParams :
          chunk_document(document, p[1], p[2], "values")
    \/ \E walk \in ImportWalks, outcome \in {"raises", "values"} :
          import_chunks_from_directory(walk, outcome)

SpecDocuments == InitDocuments /\ [][NextDocuments]_vars

----------------------------------------------------------------------------
(* Document.chunk_content, one pass of its loop at a time *)

\* no call of Document.chunk_content is under way
NoChunking ==
    [op |-> "none", pc |-> "none", document |-> 0, chunk_size |-> 0, overlap |-> 0,
     start |-> 0, chunk_number |-> 0, chunks |-> <<>>]

\* the document a call is made on
ChunkedDocument == CHOOSE document \in documents : document.id = probe.document

\* the call up to the loop (lines 30-43): the document's chunks are deleted,
\* and an empty content returns at once
ChunkContentBegin(document, chunk_size, overlap) ==
    /\ probe.op = "none"
    /\ document \in documents
    /\ db' = {row \in db : row.document # document.id}
    /\ probe' = [NoChunking EXCEPT !.op = "chunk_content",
                                   !.pc = IF document.content = <<>> THEN "returned" ELSE "loop",
                                   !.document = document.id, !.chunk_size = chunk_size,
                                   !.overlap = overlap, !.chunk_number = 1]
    /\ UNCHANGED <<storeVars, cfg, fs, documents, reqVars>>

\* one pass of the loop with the next window starting where this one ends
ChunkContentIterateNoOverlap ==
    /\ probe.op = "chunk_content" /\ probe.pc = "loop"
    /\ probe.start < Len(ChunkedDocument.content)
    /\ probe.chunk_number <= MaxContentLen + 1
    /\ LET content == ChunkedDocument.content
           end == Min(probe.start + probe.chunk_size, Len(content))
           chunk_id == <<"chunk_", Pad3(probe.chunk_number)>>
           chunk == ChunkObjectsCreate(db, probe.document, chunk_id,
                                       Slice(content, probe.start, end))
       IN /\ db' = chunk.table
          /\ probe' = IF chunk.raised THEN [probe EXCEPT !.pc = "raised"]
                      ELSE [probe EXCEPT
                              !.chunks = Append(@, [chunk_id |-> chunk_id,
                                                    content |-> Slice(content, probe.start, end),
                                                    chunk_number |-> probe.chunk_number,
                                                    start_char |-> probe.start,
                                                    end_char |-> end]),
                              !.start = end,
                              !.chunk_number = @ + 1]
    /\ UNCHANGED <<storeVars, cfg, fs, documents, reqVars>>

\* one pass of the loop (lines 45-75): the window, the chunk id, the metadata,
\* the insert, and the next start; the passes are counted up to one more than
\* a content of MaxContentLen characters needs when start moves forward
ChunkContentIterate ==
    /\ probe.op = "chunk_content" /\ probe.pc = "loop"
    /\ probe.start < Len(ChunkedDocument.content)
    /\ probe.chunk_number <= MaxContentLen + 1
    /\ LET content == ChunkedDocument.content
           end == Min(probe.start + probe.chunk_size, Len(content))
           chunk_id == <<"chunk_", Pad3(probe.chunk_number)>>
           chunk == ChunkObjectsCreate(db, probe.document, chunk_id,
                                       Slice(content, probe.start, end))
       IN /\ db' = chunk.table
          /\ probe' = IF chunk.raised THEN [probe EXCEPT !.pc = "raised"]
                      ELSE [probe EXCEPT
                              !.chunks = Append(@, [chunk_id |-> chunk_id,
                                                    content |-> Slice(content, probe.start, end),
                                                    chunk_number |-> probe.chunk_number,
                                                    start_char |-> probe.start,
                                                    end_char |-> end]),
                              !.start = IF end < Len(content) THEN end - probe.overlap
                                        ELSE Len(content),
                              !.chunk_number = @ + 1]
    /\ UNCHANGED <<storeVars, cfg, fs, documents, reqVars>>

\* the loop condition fails and the chunks are returned (lines 45, 77)
ChunkContentReturn ==
    /\ probe.op = "chunk_content" /\ probe.pc = "loop"
    /\ probe.start >= Len(ChunkedDocument.content)
    /\ probe' = [probe EXCEPT !.pc = "returned"]
    /\ UNCHANGED <<storeVars, envVars, reqVars>>

\* one document with some content, and another document that owns no chunk
\* or the chunk "chunk_002"
InitChunking ==
    /\ InitSessionStore
    /\ cfg = [PINECONE_AVAILABLE |-> FALSE, PINECONE_NEW_API |-> FALSE,
              DATABASE_AVAILABLE |-> TRUE]
    /\ \E content \in DocumentContents :
          documents = {DocumentRow(1, <<"Guide">>, <<"guide", ".md">>, content)}
    /\ db \in {{}, {StoredChunk(<<2, <<"chunk_", "002">>, 0>>, 2, <<"chunk_", "002">>, TextY, <<>>)}}
    /\ fs = [path \in FsPaths |-> NoFile]
    /\ probe = NoChunking
    /\ req = [r \in Reqs |-> IdleReq]
    /\ served = 0

\* the callers pass chunk_size and overlap as they get them
NextChunking ==
    \/ \E document \in documents, chunk_size \in 1..MaxChunkSize, overlap \in 0..MaxChunkSize :
          ChunkContentBegin(document, chunk_size, overlap)
    \/ ChunkContentIterate
    \/ ChunkContentReturn

SpecChunking == InitChunking /\ [][NextChunking]_vars

----------------------------------------------------------------------------
(* context_layer/pinecone_service.py: get_chunks_for_display *)

\* the metadata of a stored chunk: a dict, here a function of its keys
NoChunkMetadata == [key \in {} |-> <<>>]

\* a row of the Chunk table with what the display reads besides the content:
\* the title of its document and its metadata
DisplayRow(chunk_id, content, document_title, metadata) ==
    [chunk_id |-> chunk_id, content |-> content, embedding |-> <<>>, created_at |-> 0,
     document_title |-> document_title, metadata |-> metadata]

\* the title of a fragment read from the database (lines 308-314)
DatabaseTitle(chunk) ==
    IF "document_title" \in DOMAIN chunk.metadata
    THEN chunk.metadata.document_title \o <<" - Chunk ">>
            \o (IF "chunk_number" \in DOMAIN chunk.metadata
                THEN <<Decimal(chunk.metadata.chunk_number)>> ELSE <<"?">>)
    ELSE chunk.document_title \o <<" - ">> \o chunk.chunk_id

\* path_obj.parent.name
ParentName(path) ==
    LET parts == PathParts(path) IN
    IF Len(parts) < 2 \/ parts[Len(parts) - 1] = <<SEP>> THEN <<>>
    ELSE parts[Len(parts) - 1]

\* the title of a fragment read from a file (lines 364-370)
FileTitle(path) ==
    IF ParentName(path) = <<"chunks">> THEN PathName(path)
    ELSE ParentName(path) \o <<SEP>> \o PathName(path)

NoDisplay == [chunks_for_display |-> <<>>, seen_content |-> {}]

AddDisplay(acc, fragment) ==
    [chunks_for_display |-> Append(acc.chunks_for_display, fragment),
     seen_content |-> acc.seen_content \cup {fragment.content}]

\* the loop over chunk_ids[:max_chunks] against the database (lines 301-326)
RECURSIVE DisplayFromDatabase(_, _, _, _)
DisplayFromDatabase(chunk_ids, i, acc, db_raises) ==
    IF i > Len(chunk_ids) THEN acc
    ELSE LET chunk == ChunkFirst(chunk_ids[i]) IN
         IF ~db_raises /\ chunk # NoChunk /\ chunk.content # <<>>
               /\ chunk.content \notin acc.seen_content
         THEN DisplayFromDatabase(chunk_ids, i + 1,
                 AddDisplay(acc, [id |-> chunk.chunk_id, title |-> DatabaseTitle(chunk),
                                  content |-> chunk.content, metadata |-> chunk.metadata]),
                 db_raises)
         ELSE DisplayFromDatabase(chunk_ids, i + 1, acc, db_raises)

\* the loop over paths_to_try from position j (lines 358-380)
RECURSIVE DisplayFromPaths(_, _, _, _)
DisplayFromPaths(file_path, paths, j, acc) ==
    IF j > Len(paths) THEN acc
    ELSE IF IsFile(paths[j]) /\ ReadText(paths[j]) # <<>>
              /\ ReadText(paths[j]) \notin acc.seen_content
         THEN AddDisplay(acc, [id |-> file_path, title |-> FileTitle(paths[j]),
                               content |-> ReadText(paths[j]),
                               metadata |-> [file_path |-> paths[j]]])
         ELSE DisplayFromPaths(file_path, paths, j + 1, acc)

\* the loop over chunk_ids[:remaining_slots] against the filesystem (lines 333-382)
RECURSIVE DisplayFromFiles(_, _, _)
DisplayFromFiles(chunk_ids, i, acc) ==
    IF i > Len(chunk_ids) THEN acc
    ELSE IF IsDbChunkId(chunk_ids[i])
              /\ \E k \in 1..Len(acc.chunks_for_display) :
                    acc.chunks_for_display[k].id = chunk_ids[i]
         THEN DisplayFromFiles(chunk_ids, i + 1, acc)
         ELSE LET file_path == NormalizeSeparators(chunk_ids[i]) IN
              DisplayFromFiles(chunk_ids, i + 1,
                               DisplayFromPaths(file_path, PathsToTry(file_path), 1, acc))

\* the display with the filesystem loop run over the whole list
GetChunksForDisplayAllFiles(chunk_ids, max_chunks, db_raises) ==
    IF chunk_ids = <<>> THEN <<>>
    ELSE LET from_db == IF cfg.DATABASE_AVAILABLE
                        THEN DisplayFromDatabase(Take(chunk_ids, max_chunks), 1, NoDisplay,
                                                 db_raises)
                        ELSE NoDisplay
         IN DisplayFromFiles(chunk_ids, 1, from_db).chunks_for_display

\* get_chunks_for_display(chunk_ids, max_chunks)
get_chunks_for_display(chunk_ids, max_chunks, db_raises) ==
    IF chunk_ids = <<>> THEN <<>>
    ELSE LET from_db == IF cfg.DATABASE_AVAILABLE
                        THEN DisplayFromDatabase(Take(chunk_ids, max_chunks), 1, NoDisplay,
                                                 db_raises)
                        ELSE NoDisplay
             remaining_slots == max_chunks - Len(from_db.chunks_for_display)
         IN IF remaining_slots <= 0 THEN from_db.chunks_for_display
            ELSE DisplayFromFiles(Take(chunk_ids, remaining_slots), 1, from_db).chunks_for_display

\* the Chunk tables: "chunk_1" of document "Guide" with the metadata the
\* chunking wrote, and "doc_a" without metadata, each absent or with some content
DisplayTables ==
    {{row \in {DisplayRow(RefChunk, c1, <<"Guide">>,
                          [document_title |-> <<"Guide">>, chunk_number |-> 1]),
               DisplayRow(RefStem, c2, <<"Doc A">>, NoChunkMetadata)} :
        row.content # <<"absent">>} : c1, c2 \in Texts \cup {<<>>, <<"absent">>}}

InitDisplay ==
    /\ InitSessionStore
    /\ cfg \in [PINECONE_AVAILABLE : {FALSE}, PINECONE_NEW_API : {FALSE},
                 DATABASE_AVAILABLE : BOOLEAN]
    /\ db \in DisplayTables
    /\ fs \in Filesystems
    /\ documents = {}
    /\ probe = NoProbe
    /\ req = [r \in Reqs |-> IdleReq]
    /\ served = 0

CallGetChunksForDisplay(chunk_ids, max_chunks, db_raises) ==
    /\ probe.op = "none"
    /\ probe' = [op |-> "get_chunks_for_display", chunk_ids |-> chunk_ids,
                 max_chunks |-> max_chunks, db_raises |-> db_raises,
                 chunks |-> get_chunks_for_display(chunk_ids, max_chunks, db_raises)]
    /\ UNCHANGED <<storeVars, envVars, reqVars>>

NextDisplay ==
    \E chunk_ids \in ListsUpTo(Refs, MaxRefs), max_chunks \in 1..MaxDisplay,
       db_raises \in BOOLEAN :
        /\ (db_raises => cfg.DATABASE_AVAILABLE)
        /\ CallGetChunksForDisplay(chunk_ids, max_chunks, db_raises)

SpecDisplay == InitDisplay /\ [][NextDisplay]_vars

----------------------------------------------------------------------------
(* Conversation history store: properties *)

\* the (role, content) pairs of a list of message dicts
Pairs(messages) ==
    [i \in 1..Len(messages) |-> [role |-> messages[i].role, content |-> messages[i].content]]

\* C5: whenever get_chat_history reads a session's list (the read itself did
\* not fail), it returns exactly the (role, content) pairs that log_message
\* stored for that session, oldest first, with role and content unmodified.
C5_HistoryInAppendOrder ==
    (ret.op = "get_chat_history" /\ ret.ok) =>
        Pairs(ret.messages) = appended[ret.chat_id]

\* C5 witness: a read returns two stored turns, the first with quote and
\* backslash characters, the second with a None content, after time passed.
C5_Witness ==
    /\ ret.op = "get_chat_history" /\ ret.ok /\ now > 0
    /\ Len(ret.messages) = 2
    /\ ret.messages[1] = [role |-> <<"user">>, content |-> <<"a", QUOTE, BACKSLASH>>,
                          timestamp |-> <<"0">>]
    /\ ret.messages[2].role = <<"assistant">> /\ ret.messages[2].content = None

\* C6: get_chat_history on an id returned by create_chat_session, before any
\* append to it, returns the empty sequence.
C6_NewSessionHistoryEmpty ==
    (ret.op = "get_chat_history" /\ created[ret.chat_id] >= 0
        /\ appended[ret.chat_id] = <<>>) => ret.messages = <<>>

\* C6 witness: a successful read of a created session that has no append yet,
\* while the other session already holds a message.
C6_Witness ==
    /\ ret.op = "get_chat_history" /\ ret.ok
    /\ created[ret.chat_id] >= 0 /\ appended[ret.chat_id] = <<>>
    /\ \E other \in ChatIds : appended[other] # <<>>

\* C9 (as claimed): once the expiry window of a created session has passed,
\* get_chat_history returns none of its messages, i.e. the message list
\* expired together with the session metadata.
C9_MessagesExpireWithSession ==
    \A id \in ChatIds :
        (created[id] >= 0 /\ now >= created[id] + SESSION_TTL) =>
            GetChatHistory(redis, id, FALSE) = <<>>

\* C10 (as claimed): no call on the session store ends by raising to its
\* caller, whichever Redis command fails.
C10_StoreFailureNeverPropagates == ~ret.raised

----------------------------------------------------------------------------
(* Fragment content resolver: properties *)

\* the text blocks of a context: the pieces between paragraph separators
RECURSIVE BlocksFrom(_, _, _, _)
BlocksFrom(text, i, block, blocks) ==
    IF i > Len(text) THEN Append(blocks, block)
    ELSE IF text[i] = PARAGRAPH THEN BlocksFrom(text, i + 1, <<>>, Append(blocks, block))
    ELSE BlocksFrom(text, i + 1, Append(block, text[i]), blocks)

Blocks(text) == IF text = <<>> THEN <<>> ELSE BlocksFrom(text, 1, <<>>, <<>>)

Occurrences(x, q) == Cardinality({i \in 1..Len(q) : q[i] = x})

\* the text the relational store holds for a reference during the probed call
ProbedDbText(ref) ==
    IF cfg.DATABASE_AVAILABLE /\ ~probe.db_raises THEN ChunkFirst(ref).content ELSE <<>>

\* position j is the first of a reference's candidate paths holding text
FirstReadable(paths, j) ==
    /\ IsFile(paths[j]) /\ ReadText(paths[j]) # <<>>
    /\ \A k \in 1..(j - 1) : ~(IsFile(paths[k]) /\ ReadText(paths[k]) # <<>>)

\* C8: the context returned by get_chunk_content holds no text block twice,
\* and the text a reference resolves to (in the relational store, or at the
\* first of its candidate paths that holds text) is in the context exactly
\* once, also when the reference occurs twice in the list or when another
\* reference resolves to the same text.
C8_ContextDeduplicated ==
    probe.op = "get_chunk_content" =>
        LET blocks == Blocks(probe.text)
            ids == probe.chunk_ids
        IN /\ \A i, j \in 1..Len(blocks) : i # j => blocks[i] # blocks[j]
           /\ \A i \in 1..Len(ids) :
                ProbedDbText(ids[i]) # <<>> => Occurrences(ProbedDbText(ids[i]), blocks) = 1
           /\ \A i \in 1..Len(ids) :
                ~IsDbChunkId(ids[i]) =>
                    LET paths == PathsToTry(NormalizeSeparators(ids[i])) IN
                    \A j \in 1..Len(paths) :
                        FirstReadable(paths, j) => Occurrences(ReadText(paths[j]), blocks) = 1

\* C8 witness: a list naming the same reference twice, which the relational
\* store resolves, and a file resolving to the same text; one block results.
C8_Witness ==
    /\ probe.op = "get_chunk_content"
    /\ Len(probe.chunk_ids) = 2 /\ probe.chunk_ids[1] = probe.chunk_ids[2]
    /\ ProbedDbText(probe.chunk_ids[1]) # <<>>
    /\ ~IsDbChunkId(probe.chunk_ids[1])
    /\ \E j \in 1..4 :
          LET paths == PathsToTry(NormalizeSeparators(probe.chunk_ids[1])) IN
          FirstReadable(paths, j) /\ ReadText(paths[j]) = ProbedDbText(probe.chunk_ids[1])
    /\ Len(Blocks(probe.text)) = 1

----------------------------------------------------------------------------
(* Similarity search: properties *)

\* the vector index gives no candidate identifier: it is unavailable, the
\* query raises, there is no match, no match has usable metadata, or reading
\* a match's metadata raises
VectorYieldsNothing(vector) ==
    \/ ~cfg.PINECONE_AVAILABLE
    \/ ~vector.index
    \/ vector.raises
    \/ vector.matches = <<>>
    \/ \A i \in 1..Len(vector.matches) :
          \/ ~vector.matches[i].has_metadata
          \/ ~Truthy(vector.matches[i].chunk_id) /\ ~Truthy(vector.matches[i].file_path)
    \/ /\ cfg.PINECONE_NEW_API
       /\ \E i \in 1..Len(vector.matches) : ~vector.matches[i].has_metadata

\* C4: with the relational store available, every call of
\* search_similar_documents in which the vector index gives no candidate
\* sends the relational query, as the last query before it returns; so an
\* empty list (which process_query reports as "No relevant documentation
\* found") is returned only after the relational query was sent.
C4_FallbackBeforeEmpty ==
    (probe.op = "search_similar_documents" /\ cfg.DATABASE_AVAILABLE) =>
        /\ VectorYieldsNothing(probe.vector) =>
              (probe.events # <<>> /\ probe.events[Len(probe.events)] = "Chunk.objects")
        /\ probe.chunk_ids = <<>> => InSeq("Chunk.objects", probe.events)

\* C4 witness: the index answers with matches that carry no usable metadata,
\* and the relational query supplies the candidates.
C4_Witness ==
    /\ probe.op = "search_similar_documents" /\ cfg.DATABASE_AVAILABLE
    /\ probe.vector.index /\ ~probe.vector.raises /\ Len(probe.vector.matches) = 2
    /\ VectorYieldsNothing(probe.vector)
    /\ probe.events = <<"index.query", "Chunk.objects">>
    /\ probe.chunk_ids = <<RefStem, RefChunk>>

----------------------------------------------------------------------------
(* The chat endpoint: properties *)

Called(r, name) == InSeq(name, req[r].calls)

WHITESPACE == {" ", "\t", "\n"}

\* a text that is empty or made only of spaces, tabs and newlines
IsBlank(text) == text # None /\ \A i \in 1..Len(text) : text[i] \in WHITESPACE

\* C1: every request whose query text is empty or whitespace-only is answered
\* 400 and process_query is never invoked for it.
C1_BlankQueryRejected ==
    \A r \in Reqs :
        (req[r].pc # "idle" /\ IsBlank(req[r].query)) =>
            (req[r].status \in {0, 400} /\ ~Called(r, "process_query")
                /\ (req[r].pc = "done" => req[r].status = 400))

\* C2: whenever get_embedding returned no vector (None or empty), process_query
\* has returned exactly the fixed "Failed to generate embeddings for your query."
\* response with an empty fragment list, and nothing after get_embedding was
\* invoked: no search, content resolution, prompt, generation or session logging.
C2_NoEmbeddingStopsPipeline ==
    \A r \in Reqs :
        (Called(r, "get_embedding")
            /\ (req[r].query_embedding.is_none \/ req[r].query_embedding.values = <<>>)) =>
            /\ req[r].pc = "done"
            /\ req[r].status = 200
            /\ req[r].result = [response |-> EMBEDDING_FAILED, chunks |-> <<>>]
            /\ req[r].calls = <<"process_query", "get_embedding">>
            /\ (req[r].chat_id # NoChatId => appended[req[r].chat_id] = req[r].prior)

C2_Witness ==
    \E r \in Reqs :
        /\ Called(r, "get_embedding")
        /\ req[r].query_embedding = Embedding(<<>>)
        /\ req[r].chat_id # NoChatId
        /\ req[r].result.response = EMBEDDING_FAILED

\* C3: whenever the search returned candidates and get_chunk_content resolved
\* none of them (the context is the empty string), generation is not invoked
\* and the request ends with an empty fragment list and a response that is not
\* the "No relevant documentation found" one.
C3_UnresolvedContextStopsPipeline ==
    \A r \in Reqs :
        (Called(r, "get_chunk_content") /\ req[r].chunk_paths # <<>> /\ req[r].context = <<>>) =>
            /\ ~Called(r, "create_prompt")
            /\ ~Called(r, "generate_response")
            /\ (req[r].pc = "done" =>
                    req[r].result.chunks = <<>> /\ req[r].result.response # NOTHING_FOUND)

\* the line of one turn in the history block
TurnLine(turn) ==
    <<IF turn.role = <<"user">> THEN "User" ELSE "Assistant", ": ">>
        \o (IF turn.content = None THEN <<"None">> ELSE turn.content) \o <<"\n\n">>

\* text holds the lines of the turns from position i on, one after the other,
\* and nothing else
RECURSIVE HoldsTurns(_, _, _)
HoldsTurns(text, i, turns) ==
    IF turns = <<>> THEN i = Len(text) + 1
    ELSE LET line == TurnLine(Head(turns)) IN
         /\ i + Len(line) - 1 <= Len(text)
         /\ SubSeq(text, i, i + Len(line) - 1) = line
         /\ HoldsTurns(text, i + Len(line), Tail(turns))

\* block occurs in text
Contains(text, block) ==
    \E i \in 1..(Len(text) - Len(block) + 1) : SubSeq(text, i, i + Len(block) - 1) = block

\* C7: for a request with a session id whose session has prior history, when
\* no session store call of the request fails: the history block of the prompt
\* passed to generate_response holds every prior turn as "User: ..." or
\* "Assistant: ..." in the original order, and once process_query has returned,
\* get_chat_history returns the prior turns, then the new user turn, then the
\* new assistant turn.
C7_HistoryInPromptThenAppended ==
    \A r \in Reqs :
        (req[r].chat_id # NoChatId /\ req[r].prior # <<>> /\ ~req[r].store_failed
            /\ Called(r, "generate_response")) =>
            /\ req[r].chat_history # <<>>
            /\ Head(req[r].chat_history) = "Previous conversation:\n\n"
            /\ HoldsTurns(req[r].chat_history, 2, req[r].prior)
            /\ Contains(req[r].prompt, req[r].chat_history)
            /\ (req[r].pc = "done" =>
                    Pairs(GetChatHistory(redis, req[r].chat_id, FALSE)) =
                        req[r].prior \o <<[role |-> <<"user">>, content |-> req[r].query],
                                          [role |-> <<"assistant">>,
                                           content |-> req[r].response]>>)

C7_Witness ==
    \E r \in Reqs :
        /\ req[r].pc = "done"
        /\ req[r].chat_id # NoChatId
        /\ Len(req[r].prior) = 2
        /\ ~req[r].store_failed
        /\ Called(r, "generate_response")
        /\ Len(GetChatHistory(redis, req[r].chat_id, FALSE)) = 4

\* C11: a request without a session id performs no read and no write on the
\* session store: while it is served, no step changes the keyspace, and neither
\* format_chat_history_for_prompt nor log_message is ever among its calls.
C11_NoSessionNoStoreAccess ==
    [][\A r \in Reqs :
          (req[r].chat_id = NoChatId /\ req[r].pc # "idle") =>
              /\ redis' = redis
              /\ ~InSeq("format_chat_history_for_prompt", req'[r].calls)
              /\ ~InSeq("log_message", req'[r].calls)]_vars

C11_Witness ==
    \E r \in Reqs :
        /\ req[r].pc = "done"
        /\ req[r].chat_id = NoChatId
        /\ Called(r, "generate_response")
        /\ req[r].status = 200

\* the position of a stage in process_query
StageRank ==
    [idle |-> 0, embed |-> 1, search |-> 2, resolve |-> 3, display |-> 4, history |-> 5,
     prompt |-> 6, generate |-> 7, log_user |-> 8, log_assistant |-> 9, done |-> 10]

\* the position of a call in process_query
CallRank(name) ==
    CASE name = "process_query" -> 0
      [] name = "get_embedding" -> 1
      [] name \in {"search_similar_documents", "index.query", "Chunk.objects"} -> 2
      [] name = "get_chunk_content" -> 3
      [] name = "format_chat_history_for_prompt" -> 5
      [] name = "create_prompt" -> 6
      [] name = "generate_response" -> 7
      [] name = "log_message" -> 8

CountCalls(r, name) == Cardinality({i \in 1..Len(req[r].calls) : req[r].calls[i] = name})

\* the calls of a request are in stage order, each stage's call made at most
\* once (log_message: once per turn of the pair)
CallsInStageOrder ==
    \A r \in Reqs :
        /\ \A i, j \in 1..Len(req[r].calls) :
              i < j => CallRank(req[r].calls[i]) <= CallRank(req[r].calls[j])
        /\ \A name \in {"get_embedding", "search_similar_documents", "get_chunk_content",
                         "format_chat_history_for_prompt", "create_prompt",
                         "generate_response"} : CountCalls(r, name) <= 1
        /\ CountCalls(r, "log_message") <= 2

\* a step moves a request to a later stage, or hands its finished slot back
StageMovesForward ==
    \A r \in Reqs :
        req'[r].pc # req[r].pc =>
            \/ StageRank[req'[r].pc] > StageRank[req[r].pc]
            \/ req[r].pc = "done" /\ req'[r].pc = "idle"

\* C12: the stages run in the order EmbedQuery, SearchCandidates,
\* ResolveContext, ResolveDisplayFragments, LoadHistory, BuildPrompt, Generate,
\* LogTurn, Done: no step goes back to an earlier stage, every stage's call is
\* made at most once and after the calls of the earlier stages, and every
\* request that entered process_query reaches Done.
C12_StagesInOrderToDone ==
    /\ []CallsInStageOrder
    /\ [][StageMovesForward]_vars
    /\ \A r \in Reqs : (req[r].pc \notin {"idle", "done"}) ~> (req[r].pc = "done")

C12_Witness ==
    \E r \in Reqs :
        /\ req[r].pc = "done"
        /\ req[r].calls = <<"process_query", "get_embedding", "search_similar_documents",
                            "index.query", "get_chunk_content",
                            "format_chat_history_for_prompt", "create_prompt",
                            "generate_response", "log_message", "log_message">>
        /\ req[r].chunks # <<>>

\* C13: when the vector index is unavailable or raises and the relational
\* store is unavailable or raises, search_similar_documents returns the empty
\* list and process_query returns exactly "No relevant documentation found for
\* your query." with an empty fragment list, without invoking generation.
C13_BackendsDownNothingFound ==
    \A r \in Reqs :
        (Called(r, "search_similar_documents") /\ req[r].backends_down) =>
            /\ req[r].chunk_paths = <<>>
            /\ req[r].pc = "done"
            /\ req[r].status = 200
            /\ req[r].result = [response |-> NOTHING_FOUND, chunks |-> <<>>]
            /\ ~Called(r, "get_chunk_content")
            /\ ~Called(r, "create_prompt")
            /\ ~Called(r, "generate_response")

\* both backends are configured and both queries raise
C13_Witness ==
    \E r \in Reqs :
        /\ req[r].backends_down
        /\ Called(r, "index.query")
        /\ Called(r, "Chunk.objects")
        /\ db # {}
        /\ req[r].result.response = NOTHING_FOUND

\* every session store call the request has made so far raised
StoreUnavailable(r) ==
    req[r].chat_id # NoChatId /\ req[r].store_failed /\ ~req[r].store_reached

\* C14: when the session store is unavailable during a request that carries a
\* session id, the prompt is built with an empty history block, generation is
\* invoked, and process_query returns the generated response and the fragment
\* list; nothing is stored.
C14_StoreDownConversationContinues ==
    \A r \in Reqs :
        StoreUnavailable(r) =>
            /\ req[r].chat_history = <<>>
            /\ appended[req[r].chat_id] = req[r].prior
            /\ (Called(r, "create_prompt") =>
                    req[r].prompt = <<PROMPT_HEADER>> \o <<PROMPT_QUERY>> \o Str(req[r].query)
                                      \o <<PROMPT_CONTEXT>> \o Str(req[r].context)
                                      \o <<PROMPT_FOOTER>>)
            /\ (req[r].pc = "done" =>
                    /\ Called(r, "generate_response")
                    /\ req[r].status = 200
                    /\ req[r].result = [response |-> req[r].response,
                                        chunks |-> req[r].chunks])

C14_Witness ==
    \E r \in Reqs :
        /\ StoreUnavailable(r)
        /\ req[r].pc = "done"
        /\ req[r].prior # <<>>
        /\ CountCalls(r, "log_message") = 2
        /\ req[r].response = GEN_ANSWER
        /\ req[r].chunks # <<>>

----------------------------------------------------------------------------
(* The search: properties of the candidate list *)

\* the identifier a match stands for: its chunk_id, else its file_path with
\* forward slashes, else none
Identifier(m) ==
    IF Truthy(m.chunk_id) THEN m.chunk_id
    ELSE IF Truthy(m.file_path)
         THEN [i \in 1..Len(m.file_path) |->
                 IF m.file_path[i] = BACKSLASH THEN "/" ELSE m.file_path[i]]
    ELSE None

\* the identifiers of the matches in order, each kept at its first occurrence
RECURSIVE FirstOccurrences(_, _, _)
FirstOccurrences(matches, i, acc) ==
    IF i > Len(matches) THEN acc
    ELSE LET id == Identifier(matches[i]) IN
         IF id = None \/ \E j \in 1..Len(acc) : acc[j] = id
         THEN FirstOccurrences(matches, i + 1, acc)
         ELSE FirstOccurrences(matches, i + 1, Append(acc, id))

\* the call returned what the vector index branch collected
FromVectorIndex ==
    /\ probe.op = "search_similar_documents"
    /\ probe.events = <<"index.query">>
    /\ probe.chunk_ids # <<>>

\* C15: the list the vector index branch returns holds no identifier twice;
\* a match with both a chunk_id and a file_path contributes only its chunk_id,
\* and a match whose chunk_id was already returned contributes nothing: the
\* list is the matches' identifiers, each at its first occurrence.
C15_VectorCandidatesDeduplicated ==
    FromVectorIndex =>
        /\ \A i, j \in 1..Len(probe.chunk_ids) :
              i # j => probe.chunk_ids[i] # probe.chunk_ids[j]
        /\ probe.chunk_ids = FirstOccurrences(probe.vector.matches, 1, <<>>)

\* sum(a * b for a, b in zip(query_embedding, chunk_embedding))
RECURSIVE DotProduct(_, _)
DotProduct(a, b) ==
    IF a = <<>> \/ b = <<>> THEN 0
    ELSE Head(a) * Head(b) + DotProduct(Tail(a), Tail(b))

\* the rows with a non-null embedding, and the score of the row of an id
RowsWithEmbedding == {row \in db : row.embedding # <<>>}
Score(chunk_id) ==
    DotProduct(QueryEmbedding,
               (CHOOSE row \in RowsWithEmbedding : row.chunk_id = chunk_id).embedding)

\* the call fell back to the relational store and its query answered
FromRelationalStore ==
    /\ probe.op = "search_similar_documents"
    /\ InSeq("Chunk.objects", probe.events)
    /\ ~probe.db_raises

\* C16: the relational fallback returns the top_k rows with a non-null
\* embedding that score highest by dot product with the query vector, in
\* descending score order.
C16_FallbackRanksByDotProduct ==
    FromRelationalStore =>
        /\ Len(probe.chunk_ids) =
              (IF Cardinality(RowsWithEmbedding) < probe.top_k
               THEN Cardinality(RowsWithEmbedding) ELSE probe.top_k)
        /\ \A i \in 1..Len(probe.chunk_ids) :
              \E row \in RowsWithEmbedding : row.chunk_id = probe.chunk_ids[i]
        /\ \A i, j \in 1..Len(probe.chunk_ids) :
              i < j => Score(probe.chunk_ids[i]) >= Score(probe.chunk_ids[j])
        /\ \A i \in 1..Len(probe.chunk_ids) :
              \A row \in RowsWithEmbedding :
                  (\A j \in 1..Len(probe.chunk_ids) : probe.chunk_ids[j] # row.chunk_id)
                      => DotProduct(QueryEmbedding, row.embedding) <= Score(probe.chunk_ids[i])

----------------------------------------------------------------------------
(* The chat endpoint: properties of the response *)

\* C17: whatever the generation backend does (raises, returns no text or an
\* empty text), the value generate_response returns is a non-empty text, never
\* None or the empty string; so is the response process_query returns and the
\* assistant turn it logs.
C17_GenerationNeverEmpty ==
    \A r \in Reqs :
        Called(r, "generate_response") =>
            /\ req[r].response # None
            /\ req[r].response # <<>>
            /\ (req[r].pc = "done" =>
                    req[r].result.response # None /\ req[r].result.response # <<>>)
            /\ (req[r].chat_id # NoChatId =>
                    \A i \in 1..Len(appended[req[r].chat_id]) :
                        appended[req[r].chat_id][i].role = <<"assistant">> =>
                            appended[req[r].chat_id][i].content \notin {None, <<>>})

\* C18: for a request without a session id whose query was embedded, whose
\* search gave candidates and whose context is not empty, the prompt passed to
\* generation contains the query and the context, and process_query returns
\* the response with a non-empty fragment list whose items have exactly the
\* fields id, title, path and content.
C18_ResolvedContextGivesFragments ==
    \A r \in Reqs :
        (req[r].chat_id = NoChatId /\ Called(r, "generate_response")
            /\ req[r].context # <<>> /\ req[r].pc = "done") =>
            /\ Contains(req[r].prompt, req[r].query)
            /\ Contains(req[r].prompt, req[r].context)
            /\ req[r].result.response = req[r].response
            /\ req[r].result.chunks # <<>>
            /\ \A i \in 1..Len(req[r].result.chunks) :
                  DOMAIN req[r].result.chunks[i] = {"id", "title", "path", "content"}

-----------------------------------------------------------------------------
(* Requests served in parallel: properties *)

\* a occurs in b as a subsequence: its elements in their order, with gaps
RECURSIVE IsSubsequence(_, _)
IsSubsequence(a, b) ==
    IF a = <<>> THEN TRUE
    ELSE IF b = <<>> THEN FALSE
    ELSE IF Head(a) = Head(b) THEN IsSubsequence(Tail(a), Tail(b))
    ELSE IsSubsequence(a, Tail(b))

\* the number of turns the given requests have logged
RECURSIVE CountLogged(_)
CountLogged(rs) ==
    IF rs = {} THEN 0
    ELSE LET r == CHOOSE x \in rs : TRUE IN Len(req[r].logged) + CountLogged(rs \ {r})

\* the requests that carry session id chat_id
Carriers(chat_id) == {r \in Reqs : req[r].pc # "idle" /\ req[r].chat_id = chat_id}

\* C19: under every interleaving of the steps of requests served in parallel,
\* the stored history of each session is made of exactly the turns logged by
\* the requests that carry that session id, each request's turns in the order
\* it logged them; no turn logged by a request of another session is in it.
C19_SessionsIndependent ==
    \A id \in ChatIds :
        LET history == Pairs(GetChatHistory(redis, id, FALSE)) IN
        /\ Len(history) = CountLogged(Carriers(id))
        /\ \A r \in Carriers(id) : IsSubsequence(req[r].logged, history)
        /\ \A i \in 1..Len(history) :
              \E r \in Carriers(id) : \E j \in 1..Len(req[r].logged) :
                  req[r].logged[j] = history[i]

\* C19 witness: two requests on different sessions with different questions
\* are in flight together; each has logged its question and neither its answer.
C19_Witness ==
    /\ req[1].pc = "log_assistant" /\ req[2].pc = "log_assistant"
    /\ req[1].chat_id = "s1" /\ req[2].chat_id = "s2"
    /\ req[1].query # req[2].query
    /\ Len(req[1].logged) = 1 /\ Len(req[2].logged) = 1

----------------------------------------------------------------------------
(* Documents and their chunks: properties *)

\* C20: chunk_id is globally unique: after any sequence of
\* Document.chunk_content, chunk_document and import_chunks_from_directory
\* calls over any of the document sets, no two stored chunks share a chunk_id.
C20_ChunkIdUnique ==
    \A a, b \in db : a.chunk_id = b.chunk_id => a = b

\* C20 witness: Document.chunk_content raised on a document because a chunk of
\* another document holds "chunk_001", and chunks of two documents are stored.
C20_Witness ==
    /\ probe.op = "chunk_content" /\ probe.raised
    /\ \E row \in db : row.chunk_id = <<"chunk_", "001">>
    /\ Cardinality({row.document : row \in db}) >= 2

----------------------------------------------------------------------------
(* Fragment content resolver: the order of the sources *)

\* the text of the first source, in the order relational store, literal path,
\* path under the base directory, base name in the fragments directory, path
\* under the fragments directory, that holds text for a reference during the
\* probed call; <<>> when none does
FirstSourceText(ref) ==
    LET paths == PathsToTry(NormalizeSeparators(ref))
        readable == {j \in 1..Len(paths) : FirstReadable(paths, j)}
    IN IF ProbedDbText(ref) # <<>> THEN ProbedDbText(ref)
       ELSE IF IsDbChunkId(ref) \/ readable = {} THEN <<>>
       ELSE ReadText(paths[CHOOSE j \in readable : TRUE])

\* C21: get_chunk_content resolves each reference from the first source in the
\* fixed order that holds text, and a resolved reference is not looked up in
\* later sources: a call on one reference returns exactly the text of its
\* first source, and no call returns more text blocks than it has references.
C21_FirstSourceWins ==
    probe.op = "get_chunk_content" =>
        /\ Len(Blocks(probe.text)) <= Len(probe.chunk_ids)
        /\ Len(probe.chunk_ids) = 1 => probe.text = FirstSourceText(probe.chunk_ids[1])

----------------------------------------------------------------------------
(* The prompt template: properties *)

\* text is made of the given parts, one after the other, and nothing else
RECURSIVE MadeOf(_, _)
MadeOf(text, parts) ==
    IF parts = <<>> THEN text = <<>>
    ELSE /\ Len(Head(parts)) <= Len(text)
         /\ SubSeq(text, 1, Len(Head(parts))) = Head(parts)
         /\ MadeOf(SubSeq(text, Len(Head(parts)) + 1, Len(text)), Tail(parts))

\* C22: the prompt create_prompt returns is the instruction header, then the
\* history block, then the query, then the context, in that order and each
\* unmodified, closed by the language instruction; two calls with equal
\* query, context and history return equal prompts.
C22_PromptTemplate ==
    /\ \A r \in Reqs :
          Called(r, "create_prompt") =>
              MadeOf(req[r].prompt,
                     <<<<PROMPT_HEADER>>, req[r].chat_history, <<PROMPT_QUERY>>, req[r].query,
                       <<PROMPT_CONTEXT>>, req[r].context, <<PROMPT_FOOTER>>>>)
    /\ \A r, q \in Reqs :
          (Called(r, "create_prompt") /\ Called(q, "create_prompt")
              /\ req[r].query = req[q].query /\ req[r].context = req[q].context
              /\ req[r].chat_history = req[q].chat_history) =>
              req[r].prompt = req[q].prompt

\* C22 witness: two prompts are built, one with an empty history block and one
\* with the history of the turns the first request logged, for a query that
\* holds a quote character.
C22_Witness ==
    /\ Called(1, "create_prompt") /\ Called(2, "create_prompt")
    /\ req[1].chat_history = <<>> /\ req[2].chat_history # <<>>
    /\ req[2].query = <<"a", QUOTE>> /\ req[2].context # <<>>

----------------------------------------------------------------------------
(* The display fragments of get_chunks_for_display: properties *)

\* C23: get_chunks_for_display returns at most max_chunks fragments, and no
\* two of the returned fragments have the same content.
C23_DisplayBounded ==
    probe.op = "get_chunks_for_display" =>
        /\ Len(probe.chunks) <= probe.max_chunks
        /\ \A i, j \in 1..Len(probe.chunks) :
              i # j => probe.chunks[i].content # probe.chunks[j].content

\* C23 witness: a call with max_chunks 1 on two different references; the
\* relational store holds text for the first and a file of the second holds
\* another text, and one fragment is returned.
C23_Witness ==
    /\ probe.op = "get_chunks_for_display" /\ probe.max_chunks = 1
    /\ Len(probe.chunk_ids) = 2 /\ probe.chunk_ids[1] # probe.chunk_ids[2]
    /\ ProbedDbText(probe.chunk_ids[1]) # <<>>
    /\ \E j \in 1..4 :
          LET paths == PathsToTry(NormalizeSeparators(probe.chunk_ids[2])) IN
          /\ FirstReadable(paths, j)
          /\ ReadText(paths[j]) # ProbedDbText(probe.chunk_ids[1])
    /\ Len(probe.chunks) = 1

\* the position in the probed list of the reference a fragment was resolved from
RefIndex(fragment) ==
    LET ids == probe.chunk_ids
        named == {i \in 1..Len(ids) :
                     ids[i] = fragment.id \/ NormalizeSeparators(ids[i]) = fragment.id}
    IN CHOOSE i \in named : \A j \in named : i <= j

\* C24: the fragments get_chunks_for_display returns are in the order of the
\* references they were resolved from, whichever source resolved them, and
\* while fewer than max_chunks fragments are returned every one of the first
\* max_chunks references that some source holds text for is represented.
C24_DisplayInReferenceOrder ==
    probe.op = "get_chunks_for_display" =>
        /\ \A k, l \in 1..Len(probe.chunks) :
              k < l => RefIndex(probe.chunks[k]) <= RefIndex(probe.chunks[l])
        /\ Len(probe.chunks) < probe.max_chunks =>
              \A i \in 1..Len(Take(probe.chunk_ids, probe.max_chunks)) :
                  FirstSourceText(probe.chunk_ids[i]) # <<>> =>
                      \E k \in 1..Len(probe.chunks) :
                          \/ RefIndex(probe.chunks[k]) = i
                          \/ probe.chunks[k].content = FirstSourceText(probe.chunk_ids[i])

(* Document.chunk_content: the windows *)

\* C25: when Document.chunk_content returns on a non-empty content with
\* chunk_size > overlap >= 0, every created chunk's window [start_char,
\* end_char) is at most chunk_size long and holds that slice of the content,
\* the first window starts at 0 and the last ends at the end of the content,
\* each next window starts exactly overlap characters before the end of the
\* one before it, and the chunk numbers are 1, 2, 3, ...
C25_OverlappingWindows ==
    (/\ probe.op = "chunk_content" /\ probe.pc = "returned"
     /\ ChunkedDocument.content # <<>>
     /\ probe.chunk_size > probe.overlap) =>
        LET chunks == probe.chunks
            content == ChunkedDocument.content
        IN /\ Len(chunks) >= 1
           /\ chunks[1].start_char = 0
           /\ chunks[Len(chunks)].end_char = Len(content)
           /\ \A k \in 1..Len(chunks) :
                 /\ chunks[k].chunk_number = k
                 /\ chunks[k].start_char < chunks[k].end_char
                 /\ chunks[k].end_char - chunks[k].start_char <= probe.chunk_size
                 /\ chunks[k].content =
                       SubSeq(content, chunks[k].start_char + 1, chunks[k].end_char)
           /\ \A k \in 1..(Len(chunks) - 1) :
                 chunks[k].end_char - chunks[k + 1].start_char = probe.overlap

\* a call with a positive overlap that made more than one chunk has returned
C25_Witness ==
    /\ probe.op = "chunk_content" /\ probe.pc = "returned"
    /\ probe.chunk_size > probe.overlap /\ probe.overlap >= 1
    /\ Len(probe.chunks) >= 2

(* Document.chunk_content: termination *)

\* C26: Document.chunk_content terminates for every chunk_size >= 1 and
\* overlap >= 0, overlap >= chunk_size included: its loop ends only when start
\* reaches the end of the content, and start is a function of the start
\* before it, so every pass of the loop has to move start forward
C26_ChunkContentTerminates ==
    [][(/\ probe.op = "chunk_content" /\ probe.pc = "loop"
        /\ probe'.op = "chunk_content" /\ probe'.pc = "loop")
          => probe'.start > probe.start]_vars

(* Document.chunk_content: other documents' chunks *)

\* C30: a call of Document.chunk_content completes without an error, whatever
\* chunks the other documents own
C30_ChunkContentCompletes ==
    probe.op = "chunk_content" => ~probe.raised

(* process_query: the early returns and the session *)

\* the request returned one of the two fixed texts before generation
TerminatedEarly(r) ==
    /\ req[r].pc = "done"
    /\ req[r].status = 200
    /\ req[r].result.response \in {EMBEDDING_FAILED, NOTHING_FOUND}
    /\ ~Called(r, "generate_response")

\* C27: a process_query call that carries a session id and returns early (no
\* embedding, or no candidate) leaves the session's history as it was when the
\* call began: nothing is appended, and the store is neither read nor written
C27_EarlyReturnLeavesHistory ==
    \A r \in Reqs :
        (TerminatedEarly(r) /\ req[r].chat_id # NoChatId) =>
            /\ appended[req[r].chat_id] = req[r].prior
            /\ req[r].logged = <<>>
            /\ ~req[r].store_reached
            /\ ~req[r].store_failed
            /\ ~Called(r, "format_chat_history_for_prompt")
            /\ ~Called(r, "log_message")

\* a request on a session that has earlier turns returned early for want of an
\* embedding
C27_Witness ==
    \E r \in Reqs :
        /\ TerminatedEarly(r)
        /\ req[r].chat_id # NoChatId
        /\ req[r].prior # <<>>
        /\ req[r].result.response = EMBEDDING_FAILED

(* Requests served in parallel on one session *)

\* the turns of history at the positions in S, in their order
RECURSIVE TurnsAt(_, _, _)
TurnsAt(history, S, i) ==
    IF i > Len(history) THEN <<>>
    ELSE (IF i \in S THEN <<history[i]>> ELSE <<>>) \o TurnsAt(history, S, i + 1)

\* the request has returned and every store call it made succeeded
ServedWithStore(r) ==
    req[r].pc = "done" /\ req[r].status = 200 /\ ~req[r].store_failed

\* C28: when two process_query calls that ran in parallel on the same session
\* id, with the store answering every call, have both returned, the stored
\* history holds the four turns they logged: it splits into the first
\* request's user turn followed by its assistant turn and the second request's
\* user turn followed by its assistant turn, however the two pairs interleave.
C28_NoLoggedTurnLost ==
    \A id \in ChatIds : \A r, q \in Reqs :
        (/\ r # q
         /\ Carriers(id) = {r, q}
         /\ ServedWithStore(r) /\ ServedWithStore(q)) =>
            LET history == Pairs(GetChatHistory(redis, id, FALSE))
                turns(x) == <<[role |-> <<"user">>, content |-> req[x].query],
                              [role |-> <<"assistant">>, content |-> req[x].response]>>
            IN /\ Len(history) = 4
               /\ \E S \in SUBSET (1..Len(history)) :
                     /\ TurnsAt(history, S, 1) = turns(r)
                     /\ TurnsAt(history, (1..Len(history)) \ S, 1) = turns(q)

\* two requests with different questions on session "s1" have both returned,
\* and both questions were logged before either answer
C28_Witness ==
    /\ Carriers("s1") = {1, 2}
    /\ ServedWithStore(1) /\ ServedWithStore(2)
    /\ req[1].query # req[2].query
    /\ LET history == Pairs(GetChatHistory(redis, "s1", FALSE))
       IN /\ Len(history) = 4
          /\ history[1].role = <<"user">> /\ history[2].role = <<"user">>

(* process_query: the fragments shown and the context sent *)

\* C29: in every process_query result that reached generation, every fragment
\* of the returned chunks list has its content inside the context that was
\* passed to create_prompt, and a non-empty context comes with a non-empty
\* chunks list
C29_FragmentsMatchContext ==
    \A r \in Reqs :
        (req[r].pc = "done" /\ Called(r, "generate_response")) =>
            /\ \A i \in 1..Len(req[r].result.chunks) :
                  Contains(req[r].context, req[r].result.chunks[i].content)
            /\ (req[r].context # <<>> => req[r].result.chunks # <<>>)

====
